---- MODULE Spec2Model ----
(***************************************************************************)
(* Model of the resume parser (validateResumeData, generateLatexFromResume *)
(* and the section builders it calls, extractExperience, extractSkills,    *)
(* formatDateRange, normalizeUrl, escapeLatex), of the other extractors    *)
(* under extractResumeData, of analyzeJobDescription, of the conversation  *)
(* store (LocalStorageService), alone and with two operations in flight,   *)
(* and of the routes that write to it.                                     *)
(*                                                                         *)
(* Strings are sequences of tokens.  A token is one character, or a run    *)
(* of characters that the code only ever handles as a whole: a literal     *)
(* fragment of LaTeX that the renderer emits, or one of the two document   *)
(* delimiters of a template.  A delimiter starts with a backslash and      *)
(* holds no other backslash, so two occurrences never overlap and the      *)
(* tokenisation of a template is unique: includes() and split() on         *)
(* characters are includes() and split() on tokens.                        *)
(*                                                                         *)
(* A JavaScript object is a function whose DOMAIN is the set of its own    *)
(* keys; a missing key is a property that reads as undefined.              *)
(***************************************************************************)
EXTENDS Integers, Sequences, FiniteSets, TLC

VARIABLES
    data,           \* the caller's record object (validateResumeData's argument)
    original,       \* the fields of that object when the caller built it
    returned,       \* the values returned by the validateResumeData calls so far
    returnedSame,   \* whether the last call returned its argument object itself
    templateLatex,  \* the template handed to generateLatexFromResume
    latex,          \* the document generateLatexFromResume returned
    pc,             \* "input" | "validated" | "rendered" | "threw" | "rendered2"
    template2,      \* the template of a second render of the same record
    latex2,         \* the document the second render returned
    resumeText,     \* the text handed to extractResumeData
    lines,          \* the trimmed, non-empty lines handed to the extractors
    extracted,      \* what the extractor called returned
    fnName,         \* the utility function called ("" before the call)
    fnArgs,         \* its arguments, an object holding the ones passed
    fnResult,       \* what it returned
    file,           \* conversations.json: conversation id -> conversation
    heap,           \* the objects of the store's callers: reference -> record
    recorded,       \* the snapshots addResumeSnapshot returned, data by reference
    llmReply,       \* the reply the last POST /:id/message got from the LLM
    snapshotReturn, \* what the last addResumeSnapshot call returned, and for which id
    tasks           \* the store operations in flight: task -> operation and progress

renderVars ==
    <<data, original, returned, returnedSame, templateLatex, latex, pc,
      template2, latex2>>
extractVars == <<resumeText, lines, extracted>>
utilVars == <<fnName, fnArgs, fnResult>>
storeVars == <<file, heap, recorded, llmReply, snapshotReturn, tasks>>

vars == <<renderVars, extractVars, utilVars, storeVars>>

\* ---------------------------------------------------------------- bounds
MaxTplLen == 5
MaxEntries == 2
MaxCalls == 2
MaxDateLen == 2
MaxUrlLen == 2
MaxTextLen == 2
MaxNameLen == 3
MaxBullets == 2
MaxSkills == 2
MaxLines == 3
MaxMessages == 2
MaxSnapshots == 2
MaxSummaryBody == 4
MaxEducationLines == 2
MaxContactLines == 2
MaxTextLines == 3
MaxJobWords == 27
MaxJobSkills == 16
MaxRequests == 2

\* ------------------------------------------------------- string helpers
\* Array.prototype.join
RECURSIVE Join(_, _)
Join(parts, sep) ==
    IF parts = <<>> THEN <<>>
    ELSE IF Len(parts) = 1 THEN parts[1]
    ELSE parts[1] \o sep \o Join(Tail(parts), sep)

\* String.prototype.includes for a one-token needle
Includes(s, tok) == \E i \in 1..Len(s) : s[i] = tok

\* String.prototype.split for a one-token separator: every occurrence splits
RECURSIVE Split(_, _)
Split(s, tok) ==
    IF ~Includes(s, tok) THEN <<s>>
    ELSE LET i == CHOOSE k \in 1..Len(s) :
                      s[k] = tok /\ \A j \in 1..(k - 1) : s[j] # tok
         IN  <<SubSeq(s, 1, i - 1)>> \o Split(SubSeq(s, i + 1, Len(s)), tok)

IsSpace(c) == c \in {" ", "\n", "\t", "\r"}

RECURSIVE TrimStart(_)
TrimStart(s) ==
    IF s # <<>> /\ IsSpace(Head(s)) THEN TrimStart(Tail(s)) ELSE s

RECURSIVE TrimEnd(_)
TrimEnd(s) ==
    IF s # <<>> /\ IsSpace(s[Len(s)]) THEN TrimEnd(SubSeq(s, 1, Len(s) - 1)) ELSE s

\* String.prototype.trim
Trim(s) == TrimEnd(TrimStart(s))

\* Array.prototype.map / filter
RECURSIVE MapSeq(_, _)
MapSeq(F(_), s) ==
    IF s = <<>> THEN <<>> ELSE <<F(Head(s))>> \o MapSeq(F, Tail(s))

RECURSIVE FilterSeq(_, _)
FilterSeq(P(_), s) ==
    IF s = <<>> THEN <<>>
    ELSE (IF P(Head(s)) THEN <<Head(s)>> ELSE <<>>) \o FilterSeq(P, Tail(s))

Truthy(s) == s # <<>>

\* obj.key of a JavaScript object: undefined (read here as the empty string or
\* the empty array, which every use below treats alike) when the key is missing
Get(obj, key) == IF key \in DOMAIN obj THEN obj[key] ELSE <<>>

Has(obj, key) == key \in DOMAIN obj

\* all sequences over S of length at most n
SeqUpTo(S, n) == UNION {[1..k -> S] : k \in 0..n}

\* ------------------------------------------------------------- escaping
\* String.prototype.replace with a global one-character pattern
RECURSIVE ReplaceEach(_, _)
ReplaceEach(R(_), s) ==
    IF s = <<>> THEN <<>> ELSE R(Head(s)) \o ReplaceEach(R, Tail(s))

\* .replace(/\r?\n/g, ' ')
RECURSIVE ReplaceNewlines(_)
ReplaceNewlines(s) ==
    IF s = <<>> THEN <<>>
    ELSE IF Len(s) >= 2 /\ s[1] = "\r" /\ s[2] = "\n"
         THEN <<" ">> \o ReplaceNewlines(SubSeq(s, 3, Len(s)))
    ELSE IF s[1] = "\n" THEN <<" ">> \o ReplaceNewlines(Tail(s))
    ELSE <<s[1]>> \o ReplaceNewlines(Tail(s))

ReservedClass == {"&", "%", "$", "#", "_", "{", "}", "~", "^"}

EscBackslash(c) == IF c = "\\" THEN <<"\\", "textbackslash", "{", "}">> ELSE <<c>>
EscReserved(c) == IF c \in ReservedClass THEN <<"\\", c>> ELSE <<c>>
EscLess(c) == IF c = "<" THEN <<"\\", "textless", "{", "}">> ELSE <<c>>
EscGreater(c) == IF c = ">" THEN <<"\\", "textgreater", "{", "}">> ELSE <<c>>

\* the five chained replace() calls, each over the output of the one before
escapeLatex(text) ==
    ReplaceEach(EscGreater,
      ReplaceEach(EscLess,
        ReplaceEach(EscReserved,
          ReplaceEach(EscBackslash,
            ReplaceNewlines(text)))))

\* ----------------------------------------------------------------- URLs
\* a UTF-16 surrogate code unit with no partner: encodeURI throws URIError on it
LoneSurrogate == "\\uD800"

\* characters encodeURI leaves alone appear as themselves; every other
\* character becomes its percent escape
PercentEscape(c) ==
    CASE c = " "  -> <<"%", "2", "0">>
      [] c = "%"  -> <<"%", "2", "5">>
      [] c = "{"  -> <<"%", "7", "B">>
      [] c = "}"  -> <<"%", "7", "D">>
      [] c = "\\" -> <<"%", "5", "C">>
      [] c = "<"  -> <<"%", "3", "C">>
      [] c = ">"  -> <<"%", "3", "E">>
      [] c = "^"  -> <<"%", "5", "E">>
      [] OTHER    -> <<c>>

encodeURI(s) == ReplaceEach(PercentEscape, s)

encodeURIThrows(s) == Includes(s, LoneSurrogate)

\* /^https?:\/\//i ; a scheme prefix is one token
HttpPrefixes == {"http://", "https://", "HTTP://", "HTTPS://"}

\* the string normalizeUrl hands to encodeURI (the empty string when it
\* returns null before reaching encodeURI)
normalizeUrlArg(url) ==
    LET trimmed == Trim(url) IN
    IF ~Truthy(url) THEN <<>>
    ELSE IF ~Truthy(trimmed) THEN <<>>
    ELSE IF Head(trimmed) = "mailto:" THEN trimmed
    ELSE IF Head(trimmed) \in HttpPrefixes THEN trimmed
    ELSE <<"https://">> \o trimmed

\* normalizeUrl's result; null is read as the empty string, which is what the
\* callers' `if (url)` makes of it
normalizeUrl(url) == encodeURI(normalizeUrlArg(url))

normalizeUrlThrows(url) == encodeURIThrows(normalizeUrlArg(url))

\* the two early returns of null
normalizeUrlIsNull(url) == ~Truthy(url) \/ ~Truthy(Trim(url))

\* ---------------------------------------------------------------- dates
\* the en dash U+2013 of the two range formats, one token
EnDash == "U+2013"

formatDateRange_Untrimmed(start, end) ==
    IF Truthy(start) /\ Truthy(end)
        THEN start \o <<" ", EnDash, " ">> \o end
    ELSE IF Truthy(start) /\ ~Truthy(end)
        THEN start \o <<" ", EnDash, " ", "Present">>
    ELSE IF ~Truthy(start) /\ Truthy(end)
        THEN end
    ELSE <<"Present">>

formatDateRange(start, end) ==
    LET trimmedStart == Trim(start)
        trimmedEnd == Trim(end)
    IN  IF Truthy(trimmedStart) /\ Truthy(trimmedEnd)
            THEN trimmedStart \o <<" ", EnDash, " ">> \o trimmedEnd
        ELSE IF Truthy(trimmedStart) /\ ~Truthy(trimmedEnd)
            THEN trimmedStart \o <<" ", EnDash, " ", "Present">>
        ELSE IF ~Truthy(trimmedStart) /\ Truthy(trimmedEnd)
            THEN trimmedEnd
        ELSE <<"Present">>

\* ------------------------------------------------------------- bullets
ExperienceFallback ==
    "Describe your impact with quantified achievements and relevant skills."
ProjectFallback ==
    "Summarize the project outcome, your contribution, and measurable impact."

ItemOpen == "        \\resumeItem{"
ItemListStart == "\\resumeItemListStart"
ItemListEnd == "\\resumeItemListEnd"

BulletLine(item) == <<ItemOpen>> \o escapeLatex(item) \o <<"}">>

\* items.map(trim).filter(Boolean), then the fallback when nothing is left
NormalizedItems(items) == FilterSeq(Truthy, MapSeq(Trim, items))

\* a plausible slip: the fallback is never pushed
toBulletLines_NoFallback(items, fallback) ==
    Join(MapSeq(BulletLine, NormalizedItems(items)), <<"\n">>)

toBulletLines(items, fallback) ==
    LET normalized == NormalizedItems(items)
        withFallback == IF normalized = <<>> THEN <<<<fallback>>>> ELSE normalized
    IN  Join(MapSeq(BulletLine, withFallback), <<"\n">>)

\* ------------------------------------------------------ section builders
ContactSeparator == <<" $|$ ">>
ContactPlaceholder == "Add your preferred contact details"

HrefPart(target, label) == <<"\\href{">> \o target \o <<"}{">> \o label \o <<"}">>

\* the contact parts with the phone pushed before the location
ContactParts_PhoneFirst(personalInfo) ==
    LET email == Trim(Get(personalInfo, "email"))
        linkedin == normalizeUrl(Get(personalInfo, "linkedin"))
        github == normalizeUrl(Get(personalInfo, "github"))
        website == normalizeUrl(Get(personalInfo, "website"))
    IN  (IF Truthy(Get(personalInfo, "phone"))
            THEN <<escapeLatex(Get(personalInfo, "phone"))>> ELSE <<>>)
     \o (IF Truthy(Get(personalInfo, "location"))
            THEN <<escapeLatex(Get(personalInfo, "location"))>> ELSE <<>>)
     \o (IF Truthy(Get(personalInfo, "email"))
            THEN <<HrefPart(<<"mailto:">> \o email, escapeLatex(email))>> ELSE <<>>)
     \o (IF Truthy(Get(personalInfo, "linkedin")) /\ Truthy(linkedin)
            THEN <<HrefPart(linkedin, <<"LinkedIn">>)>> ELSE <<>>)
     \o (IF Truthy(Get(personalInfo, "github")) /\ Truthy(github)
            THEN <<HrefPart(github, <<"GitHub">>)>> ELSE <<>>)
     \o (IF Truthy(Get(personalInfo, "website")) /\ Truthy(website)
            THEN <<HrefPart(website, <<"Portfolio">>)>> ELSE <<>>)

\* the contact parts of buildHeader, in the order the code pushes them
ContactParts(personalInfo) ==
    LET email == Trim(Get(personalInfo, "email"))
        linkedin == normalizeUrl(Get(personalInfo, "linkedin"))
        github == normalizeUrl(Get(personalInfo, "github"))
        website == normalizeUrl(Get(personalInfo, "website"))
    IN  (IF Truthy(Get(personalInfo, "location"))
            THEN <<escapeLatex(Get(personalInfo, "location"))>> ELSE <<>>)
     \o (IF Truthy(Get(personalInfo, "phone"))
            THEN <<escapeLatex(Get(personalInfo, "phone"))>> ELSE <<>>)
     \o (IF Truthy(Get(personalInfo, "email"))
            THEN <<HrefPart(<<"mailto:">> \o email, escapeLatex(email))>> ELSE <<>>)
     \o (IF Truthy(Get(personalInfo, "linkedin")) /\ Truthy(linkedin)
            THEN <<HrefPart(linkedin, <<"LinkedIn">>)>> ELSE <<>>)
     \o (IF Truthy(Get(personalInfo, "github")) /\ Truthy(github)
            THEN <<HrefPart(github, <<"GitHub">>)>> ELSE <<>>)
     \o (IF Truthy(Get(personalInfo, "website")) /\ Truthy(website)
            THEN <<HrefPart(website, <<"Portfolio">>)>> ELSE <<>>)

buildHeader(personalInfo) ==
    LET trimmedName == Trim(Get(personalInfo, "name"))
        name == IF Truthy(trimmedName) THEN trimmedName ELSE <<"Your Name">>
        parts == ContactParts(personalInfo)
        contactParts == IF parts = <<>> THEN <<<<ContactPlaceholder>>>> ELSE parts
    IN  <<"\\begin{center}\n    {\\Huge \\scshape ">> \o escapeLatex(name)
        \o <<"} \\ \\vspace{1pt}\n    ">> \o Join(contactParts, ContactSeparator)
        \o <<" \\\n\\end{center}">>

buildHeaderThrows(personalInfo) ==
    \/ normalizeUrlThrows(Get(personalInfo, "linkedin"))
    \/ normalizeUrlThrows(Get(personalInfo, "github"))
    \/ normalizeUrlThrows(Get(personalInfo, "website"))

buildSummary(summary) ==
    LET trimmedSummary == Trim(summary) IN
    IF ~Truthy(trimmedSummary) THEN <<>>
    ELSE <<"\\section{Professional Summary}", "\n\\small{">>
         \o escapeLatex(trimmedSummary) \o <<"}">>

OrElse(s, dflt) == IF Truthy(s) THEN s ELSE <<dflt>>

ExperienceEntry(exp) ==
    LET bullets == toBulletLines(Get(exp, "bullets"), ExperienceFallback)
        dateRange == formatDateRange(Get(exp, "startDate"), Get(exp, "endDate"))
        company == escapeLatex(OrElse(Get(exp, "company"), "Company Name"))
        role == escapeLatex(OrElse(Get(exp, "position"), "Role Title"))
        location == escapeLatex(Get(exp, "location"))
    IN  <<"    \\resumeSubheading\n      {">> \o role \o <<"}{">>
        \o escapeLatex(dateRange) \o <<"}\n      {">> \o company \o <<"}{">>
        \o location \o <<"}\n      ", ItemListStart, "\n">> \o bullets
        \o <<"\n      ", ItemListEnd>>

buildExperienceSection(experience) ==
    IF experience = <<>> THEN <<>>
    ELSE <<"%-----------PROFESSIONAL EXPERIENCE-----------", "\n",
           "\\section{Professional Experience}",
           "\n  \\resumeSubHeadingListStart\n">>
         \o Join(MapSeq(ExperienceEntry, experience), <<"\n\\vspace{-16pt}\n">>)
         \o <<"\n  \\resumeSubHeadingListEnd\n\\vspace{-16pt}">>

\* description.split(/\n+/).map(trim).filter(Boolean): a run of newlines and a
\* single newline differ only in empty pieces, which the filter drops
DescriptionLines(description) ==
    IF Truthy(description)
        THEN FilterSeq(Truthy, MapSeq(Trim, Split(description, "\n")))
        ELSE <<>>

ProjectEntry(project) ==
    LET projectName == escapeLatex(OrElse(Get(project, "name"), "Project Name"))
        technologies == Get(project, "technologies")
        techStack == IF Len(technologies) > 0
                        THEN <<" $|$ \\emph{">>
                             \o escapeLatex(Join(technologies, <<",", " ">>))
                             \o <<"}">>
                        ELSE <<>>
        url == normalizeUrl(Get(project, "url"))
        metaParts ==
            (IF Truthy(Get(project, "startDate")) \/ Truthy(Get(project, "endDate"))
                THEN <<escapeLatex(formatDateRange(Get(project, "startDate"),
                                                   Get(project, "endDate")))>>
                ELSE <<>>)
         \o (IF Truthy(Get(project, "url")) /\ Truthy(url)
                THEN <<HrefPart(url, <<"Link">>)>> ELSE <<>>)
        rightColumn == Join(metaParts, ContactSeparator)
        bullets == toBulletLines(DescriptionLines(Get(project, "description")),
                                 ProjectFallback)
    IN  <<"      \\resumeProjectHeading\n          {\\textbf{">> \o projectName
        \o <<"}">> \o techStack \o <<"}{">> \o rightColumn
        \o <<"}\n          ", ItemListStart, "\n">> \o bullets
        \o <<"\n          ", ItemListEnd, "\n          \\vspace{-13pt}">>

buildProjectsSection(projects) ==
    IF projects = <<>> THEN <<>>
    ELSE <<"%-----------PROJECTS-----------", "\n", "\\section{Projects}",
           "\n    \\vspace{-5pt}\n    \\resumeSubHeadingListStart\n">>
         \o Join(MapSeq(ProjectEntry, projects), <<"\n">>)
         \o <<"\n    \\resumeSubHeadingListEnd\n\\vspace{-15pt}">>

ProjectThrows(project) == normalizeUrlThrows(Get(project, "url"))

buildProjectsSectionThrows(projects) ==
    \E i \in 1..Len(projects) : ProjectThrows(projects[i])

SkillsFallback == "Update this section with your core competencies."

SkillLine(skillGroup) ==
    LET skillsText == IF Len(Get(skillGroup, "skills")) > 0
                         THEN Join(Get(skillGroup, "skills"), <<",", " ">>)
                         ELSE <<SkillsFallback>>
    IN  <<"     \\textbf{">>
        \o escapeLatex(OrElse(Get(skillGroup, "category"), "Skills"))
        \o <<"}{: ">> \o escapeLatex(skillsText) \o <<"}">>

\* in the source's template literal "\small" and "\item" are written with a
\* single backslash, which JavaScript reads as the letters s and i alone
buildSkillsSection(skills) ==
    IF skills = <<>> THEN <<>>
    ELSE <<"%-----------TECHNICAL SKILLS-----------", "\n",
           "\\section{Technical Skills}",
           "\n \\begin{itemize}[leftmargin=0.15in, label={}]\n    small{item{\n">>
         \o Join(MapSeq(SkillLine, skills), <<" \\\n">>)
         \o <<" \\\n    }}\n \\end{itemize}\n \\vspace{-16pt}">>

EducationEntry(edu) ==
    LET degreeLine == OrElse(Get(edu, "degree"), "Degree")
                      \o (IF Truthy(Get(edu, "field"))
                            THEN <<" in ">> \o Get(edu, "field") ELSE <<>>)
        dateLine == IF Truthy(Get(edu, "graduationDate"))
                       THEN escapeLatex(Get(edu, "graduationDate")) ELSE <<>>
        institution == escapeLatex(OrElse(Get(edu, "institution"), "Institution"))
        trailing == IF Len(Get(edu, "honors")) > 0
                       THEN escapeLatex(Join(Get(edu, "honors"), <<",", " ">>))
                    ELSE IF Truthy(Get(edu, "gpa"))
                       THEN escapeLatex(<<"GPA: ">> \o Get(edu, "gpa"))
                    ELSE <<>>
    IN  <<"    \\resumeSubheading\n      {">> \o escapeLatex(degreeLine)
        \o <<"}{">> \o dateLine \o <<"}\n      {">> \o institution
        \o <<"}{">> \o trailing \o <<"}">>

buildEducationSection(education) ==
    IF education = <<>> THEN <<>>
    ELSE <<"%-----------EDUCATION-----------", "\n", "\\section{Education}",
           "\n  \\resumeSubHeadingListStart\n">>
         \o Join(MapSeq(EducationEntry, education), <<"\n">>)
         \o <<"\n  \\resumeSubHeadingListEnd">>

MetaText(meta) ==
    IF meta = <<>> THEN <<>>
    ELSE <<" (">> \o Join(MapSeq(escapeLatex, meta), <<";", " ">>) \o <<")">>

CertificationItem(cert) ==
    LET meta ==
            (IF Truthy(Get(cert, "issuer"))
                THEN <<<<"Issued by ">> \o Get(cert, "issuer")>> ELSE <<>>)
         \o (IF Truthy(Get(cert, "date")) THEN <<Get(cert, "date")>> ELSE <<>>)
         \o (IF Truthy(Get(cert, "expiryDate"))
                THEN <<<<"Expires ">> \o Get(cert, "expiryDate")>> ELSE <<>>)
         \o (IF Truthy(Get(cert, "credentialId"))
                THEN <<<<"ID ">> \o Get(cert, "credentialId")>> ELSE <<>>)
    IN  <<"    \\item ">> \o escapeLatex(Get(cert, "name")) \o MetaText(meta)

buildCertificationsSection(certifications) ==
    IF certifications = <<>> THEN <<>>
    ELSE <<"%-----------CERTIFICATIONS-----------", "\n",
           "\\section{Certifications}",
           "\n  \\begin{itemize}[leftmargin=0.15in]\n">>
         \o Join(MapSeq(CertificationItem, certifications), <<"\n">>)
         \o <<"\n  \\end{itemize}">>

AwardItem(award) ==
    LET meta ==
            (IF Truthy(Get(award, "issuer")) THEN <<Get(award, "issuer")>> ELSE <<>>)
         \o (IF Truthy(Get(award, "date")) THEN <<Get(award, "date")>> ELSE <<>>)
        description == IF Truthy(Get(award, "description"))
                          THEN <<" -- ">> \o escapeLatex(Get(award, "description"))
                          ELSE <<>>
    IN  <<"    \\item ">> \o escapeLatex(Get(award, "name")) \o MetaText(meta)
        \o description

buildAwardsSection(awards) ==
    IF awards = <<>> THEN <<>>
    ELSE <<"%-----------AWARDS-----------", "\n", "\\section{Awards}",
           "\n  \\begin{itemize}[leftmargin=0.15in]\n">>
         \o Join(MapSeq(AwardItem, awards), <<"\n">>)
         \o <<"\n  \\end{itemize}">>

\* the sections pushed by buildLatexBody, in order, the empty ones left out
\* the sections with education pushed before skills
BodySections_EducationFirst(resumeData) ==
    FilterSeq(Truthy,
        << buildHeader(resumeData.personalInfo),
           buildSummary(Get(resumeData, "summary")),
           buildExperienceSection(Get(resumeData, "experience")),
           buildProjectsSection(Get(resumeData, "projects")),
           buildEducationSection(Get(resumeData, "education")),
           buildSkillsSection(Get(resumeData, "skills")),
           buildCertificationsSection(Get(resumeData, "certifications")),
           buildAwardsSection(Get(resumeData, "awards")) >>)

BodySections(resumeData) ==
    FilterSeq(Truthy,
        << buildHeader(resumeData.personalInfo),
           buildSummary(Get(resumeData, "summary")),
           buildExperienceSection(Get(resumeData, "experience")),
           buildProjectsSection(Get(resumeData, "projects")),
           buildSkillsSection(Get(resumeData, "skills")),
           buildEducationSection(Get(resumeData, "education")),
           buildCertificationsSection(Get(resumeData, "certifications")),
           buildAwardsSection(Get(resumeData, "awards")) >>)

buildLatexBody(resumeData) == Join(BodySections(resumeData), <<"\n\n">>)

buildLatexBodyThrows(resumeData) ==
    \/ buildHeaderThrows(resumeData.personalInfo)
    \/ buildProjectsSectionThrows(Get(resumeData, "projects"))

\* ------------------------------------------------------ template splicing
beginDelimiter == "\\begin{document}"
endDelimiter == "\\end{document}"

getDefaultPreamble == <<"\\documentclass[letterpaper,11pt]{article}", "\n">>

\* const [preambleSection, bodyAndAfter] = templateLatex.split(beginDelimiter):
\* the first two pieces of the split, whatever their number
SplitAtBegin(template) ==
    LET pieces == Split(template, beginDelimiter)
    IN  <<pieces[1], IF Len(pieces) >= 2 THEN pieces[2] ELSE <<>>>>

\* const afterBegin = bodyAndAfter || ''
afterBeginOf(template) ==
    IF Includes(template, beginDelimiter) THEN SplitAtBegin(template)[2] ELSE <<>>

\* a plausible slip: only the piece after the first end delimiter is kept
postDocumentOf_SecondPiece(template) ==
    LET pieces == Split(afterBeginOf(template), endDelimiter)
    IN  IF Includes(template, endDelimiter) /\ Len(pieces) >= 2
           THEN pieces[2] ELSE <<>>

\* a plausible slip: without an end delimiter the rest of the template is kept
postDocumentOf_KeepsRest(template) ==
    IF Includes(template, endDelimiter)
       THEN Join(Tail(Split(afterBeginOf(template), endDelimiter)), <<endDelimiter>>)
       ELSE afterBeginOf(template)

\* hasEnd ? afterBegin.split(endDelimiter).slice(1).join(endDelimiter) : ''
postDocumentOf(template) ==
    IF Includes(template, endDelimiter)
       THEN Join(Tail(Split(afterBeginOf(template), endDelimiter)), <<endDelimiter>>)
       ELSE <<>>

\* hasBegin ? preambleSection : this.getDefaultPreamble()
preambleOf(template) ==
    IF Includes(template, beginDelimiter) THEN SplitAtBegin(template)[1]
                                          ELSE getDefaultPreamble

\* a plausible slip: a body found in the template is kept instead of replaced
generateLatexFromResume_KeepsTemplateBody(resumeData, template) ==
    LET found == Split(afterBeginOf(template), endDelimiter)[1]
        latexBody == IF Truthy(found) THEN found ELSE buildLatexBody(resumeData)
    IN  preambleOf(template) \o <<beginDelimiter, "\n">> \o latexBody
        \o <<"\n", endDelimiter>> \o postDocumentOf(template)

generateLatexFromResume(resumeData, template) ==
    LET postDocument == postDocumentOf(template)
        latexBody == buildLatexBody(resumeData)
        preamble == preambleOf(template)
        documentCore == preamble \o <<beginDelimiter, "\n">> \o latexBody
                        \o <<"\n", endDelimiter>>
    IN  IF Truthy(postDocument) THEN documentCore \o postDocument
                                ELSE documentCore

\* the record after a render: buildLatexBody and the section builders only
\* read resumeData; toBulletLines pushes the fallback onto the array that
\* map/filter made, never onto the record's own bullets
recordAfterRender_PushesFallback(resumeData) ==
    IF Has(resumeData, "experience")
        THEN [resumeData EXCEPT !.experience =
                 [i \in DOMAIN resumeData.experience |->
                     IF NormalizedItems(Get(resumeData.experience[i], "bullets")) = <<>>
                         THEN [k \in DOMAIN resumeData.experience[i] \cup {"bullets"} |->
                                  IF k = "bullets" THEN <<<<ExperienceFallback>>>>
                                  ELSE resumeData.experience[i][k]]
                         ELSE resumeData.experience[i]]]
        ELSE resumeData

recordAfterRender(resumeData) == resumeData

\* ------------------------------------------------------------ validator
PersonalInfoKeys ==
    {"name", "email", "phone", "location", "linkedin", "github", "website"}

CollectionKeys ==
    {"experience", "education", "skills", "projects", "certifications", "awards"}

\* the object literal assigned when data.personalInfo is missing
DefaultPersonalInfo == [k \in PersonalInfoKeys |-> <<>>]

\* a plausible slip: a placeholder entry is pushed onto experience on every call
validateResumeData_PushesPlaceholder(d) ==
    [k \in DOMAIN d \cup {"personalInfo"} \cup CollectionKeys |->
        IF k = "experience"
           THEN Append(Get(d, "experience"), [bullets |-> <<>>])
        ELSE IF k \in DOMAIN d THEN d[k]
        ELSE IF k = "personalInfo" THEN DefaultPersonalInfo
        ELSE <<>>]

\* the caller's object after the call: a default personalInfo when it had none,
\* an empty array for each collection it lacked, every other field as it was
validateResumeData(d) ==
    [k \in DOMAIN d \cup {"personalInfo"} \cup CollectionKeys |->
        IF k \in DOMAIN d THEN d[k]
        ELSE IF k = "personalInfo" THEN DefaultPersonalInfo
        ELSE <<>>]

\* ------------------------------------------------------------------ inputs
SamplePersonalInfo ==
    [name     |-> <<"5", "0", "%", " ", "&">>,
     email    |-> <<"a", "@", "b">>,
     phone    |-> <<"5", "5", "5">>,
     location |-> <<"N", "Y">>,
     linkedin |-> <<"in", "/", "j", " ", "d">>,
     github   |-> <<"https://", "g">>,
     website  |-> <<"w">>]

\* objects that hold only some of the keys
KeyedPersonalInfos ==
    {[k \in K |-> SamplePersonalInfo[k]] : K \in SUBSET PersonalInfoKeys}

\* objects that hold every key, some with the empty string
ValuedPersonalInfos ==
    {[k \in PersonalInfoKeys |-> IF k \in K THEN SamplePersonalInfo[k] ELSE <<>>] :
        K \in SUBSET PersonalInfoKeys}

OddPersonalInfos ==
    {[DefaultPersonalInfo EXCEPT !.linkedin = <<"a", LoneSurrogate>>],
     [DefaultPersonalInfo EXCEPT !.website = <<" ">>],
     [DefaultPersonalInfo EXCEPT !.name = <<" ", "\n">>],
     [DefaultPersonalInfo EXCEPT !.name = <<"\\", "<">>, !.github = <<"mailto:", "a">>],
     [DefaultPersonalInfo EXCEPT !.website = <<" ", "HTTP://", "w", "{">>],
     [DefaultPersonalInfo EXCEPT !.email = <<"a", " ", "b", "@", "c">>],
     [DefaultPersonalInfo EXCEPT !.name = <<" ", "N", "&", " ">>,
                                 !.location = <<" ">>, !.linkedin = <<" ">>]}

PersonalInfos == KeyedPersonalInfos \cup ValuedPersonalInfos \cup OddPersonalInfos

ExperienceEntries ==
    {[company |-> <<"C">>, position |-> <<"P">>, startDate |-> <<"2020">>,
      bullets |-> <<>>],
     [company |-> <<"C", "&">>, position |-> <<"P">>, location |-> <<"L">>,
      startDate |-> <<"2020">>, endDate |-> <<"2021">>,
      bullets |-> << <<"a">>, <<" ", "b", "%">> >>],
     [company |-> <<"D">>, position |-> <<"Q">>, startDate |-> <<>>],
     [company |-> <<>>, position |-> <<>>, startDate |-> <<" ">>,
      endDate |-> <<"2019">>, bullets |-> << <<" ">>, <<>> >>],
     [company |-> <<"E">>, position |-> <<"R">>, startDate |-> <<"2018">>,
      bullets |-> << <<>>, <<"c", "\n">> >>]}

ProjectEntries ==
    {[name |-> <<"N">>, description |-> <<"a", "\n", "\n", " ", "b">>,
      technologies |-> << <<"T">>, <<"U">> >>, url |-> <<"u", " ">>,
      startDate |-> <<"2020">>],
     [name |-> <<>>, description |-> <<>>],
     [name |-> <<"M">>, description |-> <<" ", "\n", " ">>, endDate |-> <<"2021">>],
     [name |-> <<"O">>, description |-> <<"d">>, url |-> <<LoneSurrogate>>]}

SampleSkills ==
    << [category |-> <<"Technical Skills">>, skills |-> << <<"J">>, <<"R", "#">> >>],
       [category |-> <<>>, skills |-> <<>>] >>

SampleEducation ==
    << [institution |-> <<"U">>, degree |-> <<"B">>, field |-> <<"F">>,
        graduationDate |-> <<"2015">>, gpa |-> <<"4">>],
       [institution |-> <<>>, degree |-> <<>>, honors |-> << <<"h">>, <<"i">> >>] >>

SampleCertifications ==
    << [name |-> <<"K">>, issuer |-> <<"I">>, date |-> <<"2016">>,
        expiryDate |-> <<"2026">>, credentialId |-> <<"7">>],
       [name |-> <<"L", "_">>] >>

SampleAwards ==
    << [name |-> <<"W">>, issuer |-> <<"I">>, date |-> <<"2017">>,
        description |-> <<"d", "~">>],
       [name |-> <<"V">>] >>

SampleRecord ==
    [personalInfo   |-> SamplePersonalInfo,
     summary        |-> <<"s", " ", "&", " ", "t">>,
     experience     |-> <<CHOOSE e \in ExperienceEntries : e.company = <<"C">>,
                          CHOOSE e \in ExperienceEntries : e.company = <<"E">> >>,
     education      |-> SampleEducation,
     skills         |-> SampleSkills,
     projects       |-> <<CHOOSE q \in ProjectEntries : q.name = <<"N">> >>,
     certifications |-> SampleCertifications,
     awards         |-> SampleAwards]

RecordKeys == DOMAIN SampleRecord

EmptyRecord == [k \in {} |-> <<>>]

\* records that hold only some of the top-level keys
KeyedRecords == {[k \in K |-> SampleRecord[k]] : K \in SUBSET RecordKeys}

\* records that hold every top-level key, some sections empty
ValuedRecords ==
    {[k \in RecordKeys |->
        IF k \in K THEN SampleRecord[k]
        ELSE IF k = "personalInfo" THEN DefaultPersonalInfo ELSE <<>>] :
     K \in SUBSET RecordKeys}

PersonalInfoRecords ==
    {[personalInfo |-> p, experience |-> <<>>] : p \in PersonalInfos}

ExperienceRecords ==
    {[personalInfo |-> DefaultPersonalInfo, experience |-> x] :
        x \in SeqUpTo(ExperienceEntries, MaxEntries)}

ProjectRecords ==
    {[personalInfo |-> DefaultPersonalInfo, projects |-> x] :
        x \in SeqUpTo(ProjectEntries, MaxEntries)}

\* records with a summary that is blank or padded, some sections empty
SummaryRecords ==
    {[k \in RecordKeys |->
        IF k = "summary" THEN s
        ELSE IF k \in K THEN SampleRecord[k]
        ELSE IF k = "personalInfo" THEN DefaultPersonalInfo ELSE <<>>] :
     s \in {<<" ">>, <<"\n", "s", " ">>},
     K \in {{"experience", "skills", "awards"}, {"education"}, {}}}

Records ==
    KeyedRecords \cup ValuedRecords \cup PersonalInfoRecords
    \cup ExperienceRecords \cup ProjectRecords \cup SummaryRecords

TemplateAlphabet == {beginDelimiter, endDelimiter, "p", "q"}

Templates == SeqUpTo(TemplateAlphabet, MaxTplLen)

SampleTemplates ==
    {<<"p", beginDelimiter, "q", endDelimiter, "p">>, <<"q">>}

SpliceRecords == {EmptyRecord, SampleRecord}

\* ------------------------------------------------------------- extractors
\* A line is a sequence of tokens: one character, or a word that the
\* extractors only ever match as a whole (a section or skill keyword, a word
\* of a name).  No word used in a line holds "at", "@" or a section keyword
\* inside it, so the job-heading pattern matches "at" only on the two
\* characters "a" "t", and includes(keyword) is the presence of the keyword
\* token.  The lines are those of extractResumeData: trimmed and non-empty.
Bullet == "U+2022"

LowerOf ==
    [Experience |-> "experience", EXPERIENCE |-> "experience",
     Work |-> "work", Education |-> "education", Skills |-> "skills",
     SKILLS |-> "skills", Technologies |-> "technologies",
     JavaScript |-> "javascript", Python |-> "python", Java |-> "java",
     React |-> "react", Node |-> "node", SQL |-> "sql", Git |-> "git",
     Docker |-> "docker", AWS |-> "aws", Leadership |-> "leadership",
     Communication |-> "communication", Problem |-> "problem",
     Solving |-> "solving", Teamwork |-> "teamwork",
     Senior |-> "senior", Developer |-> "developer", Tech |-> "tech",
     Corp |-> "corp", Cooking |-> "cooking",
     Summary |-> "summary", Objective |-> "objective", Profile |-> "profile",
     About |-> "about", University |-> "university", College |-> "college",
     Academic |-> "academic", LinkedIn |-> "linkedin", GitHub |-> "github",
     A |-> "a", T |-> "t", D |-> "d", C |-> "c"]

\* toLowerCase of one token
Lower(tok) == IF tok \in DOMAIN LowerOf THEN LowerOf[tok] ELSE tok

\* the tokens made of the letters A-Z only
UpperTokens == {"A", "T", "D", "C", "SQL", "AWS", "EXPERIENCE", "SKILLS"}

\* the number of characters of a token
TokLen(tok) ==
    CASE Lower(tok) \in {"js", "io", "in", "go", "s3"} -> 2
      [] Lower(tok) \in {"sql", "git", "aws", "com", "php", "css", "vue", "ios",
                         "asp", "net", "and", "ec2"} -> 3
      [] Lower(tok) \in {"work", "java", "node", "tech", "corp", "2020", "with"} -> 4
      [] Lower(tok) \in {"react", "about"} -> 5
      [] Lower(tok) \in {"skills", "python", "docker", "senior", "github",
                         "native", "needed"} -> 6
      [] Lower(tok) \in {"problem", "solving", "cooking", "summary",
                         "profile", "college", "actions", "module1",
                         "module2", "module3", "module4", "module5",
                         "module6", "module7", "module8", "module9"} -> 7
      [] Lower(tok) \in {"academic", "linkedin"} -> 8
      [] Lower(tok) \in {"module10", "module11", "module12", "module13",
                         "module14", "module15", "module16", "module17",
                         "module18", "module19", "module20", "module21",
                         "module22", "module23", "module24", "module25",
                         "module26", "module27", "module28", "module29",
                         "module30"} -> 8
      [] Lower(tok) \in {"education", "developer", "objective"} -> 9
      [] Lower(tok) \in {"experience", "javascript", "leadership",
                         "university", "kubernetes", "typescript"} -> 10
      [] Lower(tok) \in {"technologies"} -> 12
      [] Lower(tok) \in {"communication"} -> 13
      [] OTHER -> 1

RECURSIVE Length(_)
Length(line) == IF line = <<>> THEN 0 ELSE TokLen(Head(line)) + Length(Tail(line))

LowerLine(line) == [i \in 1..Len(line) |-> Lower(line[i])]

IncludesWord(line, keyword) == Includes(LowerLine(line), keyword)

\* split(/[...]/) on a class of one-character separators
RECURSIVE SplitAny(_, _)
SplitAny(s, seps) ==
    IF \A i \in 1..Len(s) : s[i] \notin seps THEN <<s>>
    ELSE LET i == CHOOSE k \in 1..Len(s) :
                      s[k] \in seps /\ \A j \in 1..(k - 1) : s[j] \notin seps
         IN  <<SubSeq(s, 1, i - 1)>> \o SplitAny(SubSeq(s, i + 1, Len(s)), seps)

Least(S) == CHOOSE n \in S : \A m \in S : n <= m

HeaderMaxLen == 30
HeadingMinLen == 5

sectionHeaders ==
    {"experience", "education", "skills", "projects", "certifications",
     "awards", "summary", "objective", "professional", "academic"}

isSectionHeader(line) ==
    \/ \E header \in sectionHeaders : IncludesWord(line, header)
    \/ /\ Length(line) < HeaderMaxLen
       /\ line # <<>>
       /\ \A i \in 1..Len(line) : IsSpace(line[i]) \/ line[i] \in UpperTokens

\* the index of the first line that holds one of the keywords, 0 when none
FirstLineWith(allLines, keywords) ==
    LET S == {i \in 1..Len(allLines) :
                 \E keyword \in keywords : IncludesWord(allLines[i], keyword)}
    IN  IF S = {} THEN 0 ELSE Least(S)

\* the first index from i on that holds no white space (Len + 1 when none)
SkipSpaces(line, i) ==
    Least({j \in i..(Len(line) + 1) : j > Len(line) \/ ~IsSpace(line[j])})

\* the length of what (?:at|@) matches at index j under the i flag
AtLen(line, j) ==
    IF j <= Len(line) /\ line[j] = "@" THEN 1
    ELSE IF j + 1 <= Len(line) /\ Lower(line[j]) = "a" /\ Lower(line[j + 1]) = "t"
        THEN 2
    ELSE 0

\* line.match(/^(.+?)\s*(?:at|@)\s*(.+?)(?:\s*\|.*)?$/i): the two groups,
\* trimmed, or <<>> for null.  The first group is the shortest prefix that
\* some "at" or "@" follows (after white space) with a character left for
\* the second group; the second group is the shortest text after which the
\* line ends or a "|" follows (after white space).
JobMatch(line) ==
    LET Follows(n) ==
            LET j == SkipSpaces(line, n + 1)
            IN  AtLen(line, j) > 0 /\ SkipSpaces(line, j + AtLen(line, j)) <= Len(line)
        Firsts == {n \in 1..Len(line) : Follows(n)}
    IN  IF Firsts = {} THEN <<>>
        ELSE LET n == Least(Firsts)
                 j == SkipSpaces(line, n + 1)
                 k == SkipSpaces(line, j + AtLen(line, j))
                 Ends(m) == LET r == SkipSpaces(line, m + 1)
                            IN  m = Len(line) \/ (r <= Len(line) /\ line[r] = "|")
                 m == Least({q \in k..Len(line) : Ends(q)})
             IN  <<Trim(SubSeq(line, 1, n)), Trim(SubSeq(line, k, m))>>

experienceKeywords == {"experience", "work", "employment", "professional"}

StartsWithMarker(line) == line # <<>> /\ Head(line) \in {Bullet, "-"}

\* the scan's state: the objects created so far, the result array as
\* references to them, and the reference currentExp holds (0 for the {} it
\* starts as)
ScanStart == [objs |-> <<>>, experience |-> <<>>, cur |-> 0]

CurrentExp(st) == IF st.cur = 0 THEN EmptyRecord ELSE st.objs[st.cur]

PushCurrent(st) ==
    IF Truthy(Get(CurrentExp(st), "position")) /\ Truthy(Get(CurrentExp(st), "company"))
        THEN [st EXCEPT !.experience = Append(@, st.cur)]
        ELSE st

NewEntry(st, position, company) ==
    [st EXCEPT !.objs = Append(@, [position |-> position, company |-> company,
                                   bullets |-> <<>>]),
               !.cur = Len(st.objs) + 1]

HeadingStep(st, line) ==
    LET pushed == PushCurrent(st)
        jobMatch == JobMatch(line)
        parts == MapSeq(Trim, SplitAny(line, {"|", "-"}))
    IN  IF jobMatch # <<>> THEN NewEntry(pushed, jobMatch[1], jobMatch[2])
        ELSE IF Includes(line, "|")
                \/ \E i \in 1..(Len(line) - 2) :
                       SubSeq(line, i, i + 2) = <<" ", "-", " ">>
            THEN IF Len(parts) >= 2 THEN NewEntry(pushed, parts[1], parts[2])
                 ELSE pushed
        ELSE pushed

BulletStep(st, line) ==
    LET bullet == Trim(Tail(line))
    IN  IF Len(bullet) > 0
            THEN [st EXCEPT !.objs[st.cur].bullets = Append(@, bullet)]
            ELSE st

RECURSIVE ScanExperience(_, _, _)
ScanExperience(allLines, i, st) ==
    IF i > Len(allLines) THEN st
    ELSE LET line == allLines[i]
         IN  IF isSectionHeader(line) /\ LowerLine(line) # <<"experience">> THEN st
             ELSE IF ~StartsWithMarker(line) /\ Length(line) > HeadingMinLen
                 THEN ScanExperience(allLines, i + 1, HeadingStep(st, line))
             ELSE IF StartsWithMarker(line) /\ Truthy(Get(CurrentExp(st), "position"))
                 THEN ScanExperience(allLines, i + 1, BulletStep(st, line))
             ELSE ScanExperience(allLines, i + 1, st)

extractExperience(allLines) ==
    LET first == FirstLineWith(allLines, experienceKeywords)
        st == PushCurrent(ScanExperience(allLines, first + 1, ScanStart))
    IN  IF first = 0 THEN <<>>
        ELSE [i \in 1..Len(st.experience) |-> st.objs[st.experience[i]]]

skillsKeywords == {"skills", "technologies", "competencies"}

\* the lines extractSkills collects: those after the first skills line, up
\* to the first section header
RECURSIVE CollectSkillsText(_, _)
CollectSkillsText(allLines, i) ==
    IF i > Len(allLines) THEN <<>>
    ELSE IF isSectionHeader(allLines[i]) THEN <<>>
    ELSE (IF Len(allLines[i]) > 0 THEN <<allLines[i]>> ELSE <<>>)
         \o CollectSkillsText(allLines, i + 1)

\* allSkillsText.split(/[bullet,\n]/).map(trim).filter(non-empty)
SkillItems(allLines) ==
    LET first == FirstLineWith(allLines, skillsKeywords)
        allSkillsText == Join(CollectSkillsText(allLines, first + 1), <<" ">>)
    IN  IF first = 0 THEN <<>>
        ELSE FilterSeq(Truthy, MapSeq(Trim, SplitAny(allSkillsText, {Bullet, ",", "\n"})))

\* the tokens that are not word characters: \b falls between one of them
\* (or an end of the string) and a word
NonWordTokens ==
    {" ", "\n", "\t", ".", ",", "-", "/", "+", "#", "|", "@", "(", ")", "\\",
     "%", Bullet}
IsWordTok(tok) == tok \notin NonWordTokens

BoundaryBefore(skill, i) == i = 1 \/ ~IsWordTok(skill[i - 1])
BoundaryAfter(skill, i) == i = Len(skill) \/ ~IsWordTok(skill[i + 1])

TechnicalWords ==
    {"javascript", "python", "java", "react", "node", "sql", "html", "css",
     "aws", "docker", "git"}
SoftWords == {"communication", "leadership", "teamwork", "analytical"}

\* /\b(javascript|python|java|react|node|sql|html|css|aws|docker|git)\b/i
IsTechnical(skill) ==
    \E i \in 1..Len(skill) :
        Lower(skill[i]) \in TechnicalWords
        /\ BoundaryBefore(skill, i) /\ BoundaryAfter(skill, i)

\* /\b(communication|leadership|teamwork|problem.solving|analytical)\b/i
IsSoft(skill) ==
    \/ \E i \in 1..Len(skill) :
           Lower(skill[i]) \in SoftWords
           /\ BoundaryBefore(skill, i) /\ BoundaryAfter(skill, i)
    \/ \E i \in 1..(Len(skill) - 2) :
           /\ Lower(skill[i]) = "problem" /\ TokLen(skill[i + 1]) = 1
           /\ skill[i + 1] # "\n" /\ Lower(skill[i + 2]) = "solving"
           /\ BoundaryBefore(skill, i) /\ BoundaryAfter(skill, i + 2)

IsOtherSkill(skill) == ~IsTechnical(skill) /\ ~IsSoft(skill)

SkillGroup(category, skills) == [category |-> category, skills |-> skills]

SkillGroups_KeepsEmpty(technicalSkills, softSkills, otherSkills) ==
    <<SkillGroup("Soft Skills", softSkills),
      SkillGroup("Technical Skills", technicalSkills),
      SkillGroup("Other Skills", otherSkills)>>

\* the three pushes, each under its length > 0 test
SkillGroups(technicalSkills, softSkills, otherSkills) ==
    (IF Len(technicalSkills) > 0
        THEN <<SkillGroup("Technical Skills", technicalSkills)>> ELSE <<>>)
 \o (IF Len(softSkills) > 0
        THEN <<SkillGroup("Soft Skills", softSkills)>> ELSE <<>>)
 \o (IF Len(otherSkills) > 0
        THEN <<SkillGroup("Other Skills", otherSkills)>> ELSE <<>>)

extractSkills(allLines) ==
    LET skillItems == SkillItems(allLines)
    IN  SkillGroups(FilterSeq(IsTechnical, skillItems),
                    FilterSeq(IsSoft, skillItems),
                    FilterSeq(IsOtherSkill, skillItems))

\* ----------------------------------------- summary, education, contact
summaryKeywords == {"summary", "objective", "profile", "about"}
SummaryMinLen == 10
SummaryMaxLines == 3

\* the length test under which extractSummary keeps a line
KeepsSummaryLine_AtLeast(line) == Length(line) >= SummaryMinLen

KeepsSummaryLine(line) == Length(line) > SummaryMinLen

\* the collecting loop of extractSummary from line i on
RECURSIVE CollectSummary(_, _, _)
CollectSummary(allLines, i, summaryLines) ==
    IF i > Len(allLines) THEN summaryLines
    ELSE IF isSectionHeader(allLines[i]) THEN summaryLines
    ELSE LET kept == IF KeepsSummaryLine(allLines[i])
                        THEN Append(summaryLines, allLines[i])
                        ELSE summaryLines
         IN  IF Len(kept) >= SummaryMaxLines THEN kept
             ELSE CollectSummary(allLines, i + 1, kept)

\* extractSummary without its return on summaryStart === -1
extractSummary_ScansWithoutHeading(allLines) ==
    Join(CollectSummary(allLines, FirstLineWith(allLines, summaryKeywords) + 1,
                        <<>>), <<" ">>)

extractSummary(allLines) ==
    LET first == FirstLineWith(allLines, summaryKeywords)
    IN  IF first = 0 THEN <<>>
        ELSE Join(CollectSummary(allLines, first + 1, <<>>), <<" ">>)

educationKeywords == {"education", "academic", "university", "college"}
EducationMinLen == 10

\* line.match(/^(.+?),\s*(.+?)(?:,\s*(.+?))?$/): the three groups (the third
\* empty when it did not take part), or <<>> for null.  The first group ends
\* before the first comma that leaves it a character and has a character
\* after it; the second starts after the white space that follows and is
\* the shortest text after which the line ends or a comma with text follows.
EduMatch(line) ==
    LET Commas == {c \in 2..(Len(line) - 1) :
                      line[c] = "," /\ SkipSpaces(line, c + 1) <= Len(line)}
    IN  IF Commas = {} THEN <<>>
        ELSE LET c == Least(Commas)
                 k == SkipSpaces(line, c + 1)
                 Ends(q) == \/ q = Len(line)
                            \/ /\ q + 1 < Len(line) /\ line[q + 1] = ","
                               /\ SkipSpaces(line, q + 2) <= Len(line)
                 m == Least({q \in k..Len(line) : Ends(q)})
             IN  <<SubSeq(line, 1, c - 1), SubSeq(line, k, m),
                   IF m = Len(line) THEN <<>>
                   ELSE SubSeq(line, SkipSpaces(line, m + 2), Len(line))>>

\* the entry one line gives, as a sequence of zero or one entries
EducationOf(line) ==
    LET eduMatch == EduMatch(line)
        parts == MapSeq(Trim, Split(line, ","))
    IN  IF eduMatch # <<>>
            THEN <<[degree |-> Trim(eduMatch[1]),
                    institution |-> Trim(eduMatch[2]),
                    field |-> Trim(eduMatch[3])]>>
        ELSE IF Len(parts) >= 2
            THEN <<[degree |-> parts[1], institution |-> parts[2],
                    field |-> Join(SubSeq(parts, 3, Len(parts)), <<",", " ">>)]>>
        ELSE <<>>

RECURSIVE ScanEducation(_, _)
ScanEducation(allLines, i) ==
    IF i > Len(allLines) THEN <<>>
    ELSE LET line == allLines[i]
         IN  IF isSectionHeader(line)
                /\ ~\E k \in educationKeywords : IncludesWord(line, k)
                 THEN <<>>
             ELSE (IF Length(line) > EducationMinLen /\ ~StartsWithMarker(line)
                      THEN EducationOf(line) ELSE <<>>)
                  \o ScanEducation(allLines, i + 1)

extractEducation(allLines) ==
    LET first == FirstLineWith(allLines, educationKeywords)
    IN  IF first = 0 THEN <<>> ELSE ScanEducation(allLines, first + 1)

\* the digits are one-character tokens, but for the year, which Chars
\* spells out
DigitTokens == {"0", "1", "2", "3", "4", "5", "6", "7", "8", "9"}
HasDigit(line) == \E i \in 1..Len(line) : line[i] \in DigitTokens \cup {"2020"}

RECURSIVE Chars(_)
Chars(s) ==
    IF s = <<>> THEN <<>>
    ELSE (IF Head(s) = "2020" THEN <<"2", "0", "2", "0">> ELSE <<Head(s)>>)
         \o Chars(Tail(s))

\* \b between the tokens i and i + 1 of s
WordBoundary(s, i) ==
    (i >= 1 /\ i <= Len(s) /\ IsWordTok(s[i]))
        # (i + 1 >= 1 /\ i + 1 <= Len(s) /\ IsWordTok(s[i + 1]))

IsLetters(tok) == IsWordTok(tok) /\ tok \notin DigitTokens \cup {"2020", "_"}
EmailLocalTok(tok) == IsWordTok(tok) \/ tok \in {".", "%", "+", "-"}
EmailDomainTok(tok) == (IsWordTok(tok) /\ tok # "_") \/ tok \in {".", "-"}
EmailTldTok(tok) == IsLetters(tok) \/ tok = "|"

\* /\b[A-Za-z0-9._%+-]+@[A-Za-z0-9.-]+\.[A-Z|a-z]{2,}\b/ tried at token p:
\* <<p, e>> for a match of the tokens p..e, <<>> for none.  Both runs are
\* greedy: the last dot that a top-level name can follow, and the longest
\* such name.
EmailAt(s, p) ==
    LET Ats == {a \in (p + 1)..Len(s) :
                   s[a] = "@" /\ \A j \in p..(a - 1) : EmailLocalTok(s[j])}
        a == Least(Ats)
        TldEnds(d) ==
            {e \in (d + 1)..Len(s) :
                /\ \A j \in (d + 1)..e : EmailTldTok(s[j])
                /\ Length(SubSeq(s, d + 1, e)) >= 2
                /\ WordBoundary(s, e)}
        Dots == {d \in (a + 2)..Len(s) :
                    /\ s[d] = "."
                    /\ \A j \in (a + 1)..(d - 1) : EmailDomainTok(s[j])
                    /\ TldEnds(d) # {}}
        d == CHOOSE x \in Dots : \A y \in Dots : y <= x
        e == CHOOSE x \in TldEnds(d) : \A y \in TldEnds(d) : y <= x
    IN  IF ~WordBoundary(s, p - 1) \/ Ats = {} THEN <<>>
        ELSE IF Dots = {} THEN <<>>
        ELSE <<p, e>>

\* the literal lit at token p of s, under the i flag
LiteralAt(s, p, lit) ==
    /\ p + Len(lit) - 1 <= Len(s)
    /\ \A j \in 1..Len(lit) : Lower(s[p + j - 1]) = lit[j]

\* lit followed by [A-Za-z0-9_-]+, tried at token p
ProfileAt(s, p, lit) ==
    LET i == p + Len(lit)
        IsIdTok(tok) == IsWordTok(tok) \/ tok = "-"
        Ends == {e \in i..Len(s) : \A j \in i..e : IsIdTok(s[j])}
    IN  IF LiteralAt(s, p, lit) /\ Ends # {}
            THEN <<p, CHOOSE x \in Ends : \A y \in Ends : y <= x>>
            ELSE <<>>

LinkedinLiteral == <<"linkedin", ".", "com", "/", "in", "/">>
GithubLiteral == <<"github", ".", "com", "/">>

\* the phone pattern as the sequence of its parts: an optional character
\* of a class, or a run of n digits
PhoneSeps == {"-", ".", " ", "\t", "\n"}
PhoneAreaLen == 3
PhoneLineLen == 4
PhoneParts ==
    <<[opt |-> {"+"}], [opt |-> {"1"}], [opt |-> PhoneSeps], [opt |-> {"("}],
      [digits |-> PhoneAreaLen], [opt |-> {")"}], [opt |-> PhoneSeps],
      [digits |-> PhoneAreaLen], [opt |-> PhoneSeps], [digits |-> PhoneLineLen]>>

\* the backtracking match of parts at token i of s, every optional part
\* tried present first: the index after the match, 0 for none
RECURSIVE MatchParts(_, _, _)
MatchParts(s, i, parts) ==
    IF parts = <<>> THEN (IF WordBoundary(s, i - 1) THEN i ELSE 0)
    ELSE LET part == Head(parts)
         IN  IF "opt" \in DOMAIN part
                 THEN LET taken == IF i <= Len(s) /\ s[i] \in part.opt
                                      THEN MatchParts(s, i + 1, Tail(parts))
                                      ELSE 0
                      IN  IF taken # 0 THEN taken
                          ELSE MatchParts(s, i, Tail(parts))
             ELSE IF /\ i + part.digits - 1 <= Len(s)
                     /\ \A j \in i..(i + part.digits - 1) : s[j] \in DigitTokens
                 THEN MatchParts(s, i + part.digits, Tail(parts))
             ELSE 0

PhoneAt(s, p) ==
    LET end == MatchParts(s, p, PhoneParts)
    IN  IF end = 0 THEN <<>> ELSE <<p, end - 1>>

\* fullText.match(pattern)[0] for the leftmost match, '' when there is none
FirstMatch(s, Starts, At(_)) ==
    IF Starts = {} THEN <<>>
    ELSE LET m == At(Least(Starts)) IN SubSeq(s, m[1], m[2])

NameScanLines == 5
NameMaxLen == 50
LocationScanLines == 10
LocationMaxLen == 50

IsNameLine(line) ==
    /\ Length(line) > 0 /\ Length(line) < NameMaxLen
    /\ ~Includes(line, "@") /\ ~HasDigit(line)
    /\ ~Includes(line, "|") /\ ~Includes(line, Bullet)
    /\ ~\E i \in 1..(Len(line) - 2) : SubSeq(line, i, i + 2) = <<" ", "-", " ">>

IsLocationLine(line) ==
    /\ Includes(line, ",") /\ Length(line) < LocationMaxLen
    /\ ~Includes(line, "@")
    /\ Len(Split(line, ",")) = 2

\* the first of the first n lines that satisfies the test, '' when none
FirstAmong(allLines, n, Test(_)) ==
    LET S == {i \in 1..Len(allLines) : i <= n /\ Test(allLines[i])}
    IN  IF S = {} THEN <<>> ELSE allLines[Least(S)]

extractPersonalInfo(allLines) ==
    LET fullText == Join(allLines, <<" ">>)
        digits == Chars(fullText)
        EmailHere(p) == EmailAt(fullText, p)
        PhoneHere(p) == PhoneAt(digits, p)
        LinkedinHere(p) == ProfileAt(fullText, p, LinkedinLiteral)
        GithubHere(p) == ProfileAt(fullText, p, GithubLiteral)
    IN  [name |-> FirstAmong(allLines, NameScanLines, IsNameLine),
         email |-> FirstMatch(fullText,
                      {p \in 1..Len(fullText) : EmailHere(p) # <<>>}, EmailHere),
         phone |-> FirstMatch(digits,
                      {p \in 1..Len(digits) : PhoneHere(p) # <<>>}, PhoneHere),
         location |-> FirstAmong(allLines, LocationScanLines, IsLocationLine),
         linkedin |-> FirstMatch(fullText,
                      {p \in 1..Len(fullText) : LinkedinHere(p) # <<>>},
                      LinkedinHere),
         github |-> FirstMatch(fullText,
                      {p \in 1..Len(fullText) : GithubHere(p) # <<>>},
                      GithubHere),
         website |-> <<>>]

\* text.split('\n').map(trim).filter(non-empty)
SplitLines(s) == FilterSeq(Truthy, MapSeq(Trim, Split(s, "\n")))

extractResumeData(s) ==
    LET allLines == SplitLines(s)
    IN  [personalInfo |-> extractPersonalInfo(allLines),
         summary |-> extractSummary(allLines),
         experience |-> extractExperience(allLines),
         education |-> extractEducation(allLines),
         skills |-> extractSkills(allLines),
         projects |-> <<>>,
         certifications |-> <<>>,
         awards |-> <<>>]

\* --------------------------------------------------------- job analysis
\* analyzeJobDescription (routes/conversation.ts): a description is a
\* sequence of tokens in which a word, a maximal run of \w characters, is
\* one token and two words are never adjacent.
stopWords ==
    {"that", "with", "have", "this", "will", "your", "from", "they",
     "know", "want", "been", "good", "much", "some", "time", "very",
     "when", "come", "here", "just", "like", "long", "make", "many",
     "over", "such", "take", "than", "them", "well", "were", "what",
     "where", "which", "their", "said", "each", "also", "about", "would",
     "there", "could", "other", "after", "first", "never", "these",
     "work", "being", "through", "before", "great", "looking", "join",
     "team", "company", "candidate", "ideal", "role", "position",
     "responsibilities", "requirements", "qualifications", "skills",
     "experience", "ability", "knowledge", "understanding", "strong",
     "excellent", "proven", "track", "record"}

technicalTerms ==
    {"javascript", "python", "java", "react", "node", "aws", "docker",
     "kubernetes", "api", "database", "sql", "nosql", "rest", "graphql",
     "microservices", "agile", "scrum", "ci/cd", "testing", "automation",
     "security", "performance", "scalability", "architecture", "design",
     "patterns", "algorithms", "data", "structures", "machine",
     "learning", "artificial", "intelligence", "cloud", "infrastructure",
     "devops", "monitoring", "logging", "debugging", "optimization",
     "frontend", "backend", "fullstack", "mobile", "web", "application",
     "software", "engineering", "development", "programming", "coding",
     "deployment", "maintenance", "support", "integration",
     "implementation", "configuration"}

technicalSkills ==
    <<<<"javascript">>, <<"python">>, <<"java">>, <<"c", "Backslashes",
      "+">>, <<"c", "#">>, <<"go">>, <<"rust">>, <<"php">>, <<"ruby">>,
      <<"swift">>, <<"kotlin">>, <<"scala">>, <<"r">>, <<"matlab">>,
      <<"perl">>, <<"react">>, <<"angular">>, <<"vue">>, <<"node">>,
      <<"express">>, <<"django">>, <<"flask">>, <<"spring">>,
      <<"laravel">>, <<"asp", "AnyChar", "net">>, <<"html">>, <<"css">>,
      <<"sass">>, <<"less">>, <<"typescript">>, <<"jquery">>,
      <<"bootstrap">>, <<"tailwind">>, <<"webpack">>, <<"babel">>,
      <<"sql">>, <<"mysql">>, <<"postgresql">>, <<"mongodb">>,
      <<"redis">>, <<"elasticsearch">>, <<"oracle">>, <<"sqlite">>,
      <<"cassandra">>, <<"dynamodb">>, <<"firebase">>, <<"aws">>,
      <<"azure">>, <<"gcp">>, <<"heroku">>, <<"digitalocean">>,
      <<"vercel">>, <<"netlify">>, <<"cloudflare">>, <<"lambda">>,
      <<"ec2">>, <<"s3">>, <<"docker">>, <<"kubernetes">>, <<"jenkins">>,
      <<"gitlab">>, <<"github">>, <<"terraform">>, <<"ansible">>,
      <<"circleci">>, <<"travis">>, <<"github", " ", "actions">>,
      <<"pandas">>, <<"numpy">>, <<"scikit", "-", "learn">>,
      <<"tensorflow">>, <<"pytorch">>, <<"keras">>, <<"jupyter">>,
      <<"spark">>, <<"hadoop">>, <<"kafka">>, <<"ios">>, <<"android">>,
      <<"react", " ", "native">>, <<"flutter">>, <<"xamarin">>,
      <<"ionic">>, <<"cordova">>, <<"git">>, <<"linux">>, <<"ubuntu">>,
      <<"centos">>, <<"graphql">>, <<"rest">>, <<"api">>,
      <<"microservices">>, <<"agile">>, <<"scrum">>, <<"kanban">>,
      <<"jira">>, <<"confluence">>, <<"jest">>, <<"mocha">>, <<"chai">>,
      <<"cypress">>, <<"selenium">>, <<"junit">>, <<"pytest">>,
      <<"rspec">>>>

\* the words that hold a digit or an underscore
JobFillers ==
    <<"module1", "module2", "module3", "module4", "module5", "module6",
      "module7", "module8", "module9", "module10", "module11", "module12",
      "module13", "module14", "module15", "module16", "module17",
      "module18", "module19", "module20", "module21", "module22",
      "module23", "module24", "module25", "module26", "module27",
      "module28", "module29", "module30">>

HasSpecial(word) ==
    word \in DigitTokens \cup {"2020", "ec2", "s3", "_"}
    \/ \E i \in 1..Len(JobFillers) : word = JobFillers[i]

\* the pattern of one skill matched from token i of s on: the index after
\* the match, 0 for none.  "AnyChar" is the unescaped dot of 'asp.net',
\* "Backslashes" the \\+ that replace('+', '\\+') makes of 'c\\+\\+'.
RECURSIVE PatternEnd(_, _, _)
PatternEnd(s, i, pattern) ==
    IF pattern = <<>> THEN i
    ELSE IF i > Len(s) THEN 0
    ELSE IF Head(pattern) = "AnyChar"
        THEN IF TokLen(s[i]) = 1 /\ s[i] # "\n"
                THEN PatternEnd(s, i + 1, Tail(pattern)) ELSE 0
    ELSE IF Head(pattern) = "Backslashes"
        THEN IF s[i] # "\\" THEN 0
             ELSE LET after == Least({j \in (i + 1)..(Len(s) + 1) :
                                         j > Len(s) \/ s[j] # "\\"})
                  IN  PatternEnd(s, after, Tail(pattern))
    ELSE IF Lower(s[i]) = Head(pattern)
        THEN PatternEnd(s, i + 1, Tail(pattern))
    ELSE 0

\* new RegExp('\\b' + skill + '\\b', 'i').test(text); every skill starts
\* with a letter
SkillFound(s, pattern) ==
    \E p \in 1..Len(s) :
        /\ Lower(s[p]) = Head(pattern)
        /\ WordBoundary(s, p - 1)
        /\ LET end == PatternEnd(s, p, pattern)
           IN  end # 0 /\ WordBoundary(s, end - 1)

\* what is pushed for a skill: skill.replace('\\+\\+', 'c++')
PushedSkill(pattern) ==
    IF pattern = <<"c", "Backslashes", "+">> THEN <<"c", "c", "+", "+">>
    ELSE [i \in 1..Len(pattern) |->
             IF pattern[i] = "AnyChar" THEN "." ELSE pattern[i]]

\* the values of a sequence without their repeats, first occurrences kept
RECURSIVE Unique(_)
Unique(seq) ==
    IF seq = <<>> THEN <<>>
    ELSE LET rest == Unique(SubSeq(seq, 1, Len(seq) - 1))
             last == seq[Len(seq)]
         IN  IF \E i \in 1..Len(rest) : rest[i] = last THEN rest
             ELSE Append(rest, last)

extractTechnicalSkills(s) ==
    LET Found(pattern) == SkillFound(s, pattern)
        foundSkills == SelectSeq(technicalSkills, Found)
    IN  Unique([i \in 1..Len(foundSkills) |-> PushedSkill(foundSkills[i])])

\* text.toLowerCase().match(/\b\w+\b/g) || []
JobWords(s) == SelectSeq(LowerLine(s), IsWordTok)

IsPotentialKeyword(word) ==
    /\ ~(TokLen(word) < 4)
    /\ word \notin stopWords
    /\ \/ word \in technicalTerms
       \/ HasSpecial(word)
       \/ TokLen(word) > 6

Freq(words, word) == Cardinality({i \in 1..Len(words) : words[i] = word})

\* Object.entries(keywordFreq): the keys in insertion order, after the
\* integer keys (the year is the only word that is one)
KeywordEntries(words) ==
    LET keys == Unique(words)
        IsYear(w) == w = "2020"
        NotYear(w) == w # "2020"
    IN  SelectSeq(keys, IsYear) \o SelectSeq(keys, NotYear)

\* four times the score of a keyword: the factors 2, 1.5 and 1.5 on its
\* frequency
Score4(word, freq) ==
    freq
    * (IF word \in technicalTerms THEN 2 ELSE 1)
    * (IF TokLen(word) > 8 THEN 3 ELSE 2)
    * (IF HasSpecial(word) THEN 3 ELSE 2)

\* Object.entries(keywordFreq).map(...): word, score and frequency
ScoredKeywords(words) ==
    LET entries == KeywordEntries(words)
    IN  [i \in 1..Len(entries) |->
            [word |-> entries[i],
             score |-> Score4(entries[i], Freq(words, entries[i])),
             freq |-> Freq(words, entries[i])]]

\* the comparator puts a before b: by score, then by frequency, descending
SortsBefore(a, b) ==
    \/ a.score > b.score
    \/ a.score = b.score /\ a.freq > b.freq

\* Array.prototype.sort under the comparator, equal elements in their
\* order: each element goes before the first one it sorts before
RECURSIVE SortKeywords(_)
SortKeywords(entries) ==
    IF entries = <<>> THEN <<>>
    ELSE LET sorted == SortKeywords(SubSeq(entries, 1, Len(entries) - 1))
             last == entries[Len(entries)]
             k == Least({n \in 1..(Len(sorted) + 1) :
                            n > Len(sorted) \/ SortsBefore(last, sorted[n])})
         IN  SubSeq(sorted, 1, k - 1) \o <<last>> \o SubSeq(sorted, k, Len(sorted))

KeywordLimit == 25

extractKeywords(s) ==
    LET potentialKeywords == SelectSeq(JobWords(s), IsPotentialKeyword)
        sorted == SortKeywords(ScoredKeywords(potentialKeywords))
    IN  [i \in 1..(IF Len(sorted) < KeywordLimit THEN Len(sorted)
                   ELSE KeywordLimit) |-> sorted[i].word]

Min(a, b) == IF a < b THEN a ELSE b
Max(a, b) == IF a > b THEN a ELSE b

\* the penalty for fewer than three keywords, on ten times the score
Penalised_NoFloor(score10, keywords) ==
    IF Len(keywords) < 3 THEN score10 - 100 ELSE score10

Penalised(score10, keywords) ==
    IF Len(keywords) < 3 THEN Max(score10 - 100, 0) ELSE score10

\* Math.round of a tenth of score10
Round10(score10) == (score10 + 5) \div 10

\* calculateATSScore, the sum kept in tenths up to Math.round
calculateATSScore(keywords, skills) ==
    LET score10 ==
            (IF Len(keywords) > 0 THEN 150 ELSE 0)
            + Min(Len(keywords) * 14, 350)
            + Min(Len(skills) * 20, 300)
            + (IF Len(keywords) > 15 THEN 50 ELSE 0)
            + (IF Len(keywords) > 20 THEN 50 ELSE 0)
            + (IF Len(skills) > 5 THEN 50 ELSE 0)
            + (IF Len(skills) > 8 THEN 50 ELSE 0)
    IN  Min(Round10(Penalised(score10, keywords)), 100)

\* the part of the analysis that makes the score
analyzeJobDescription(description) ==
    LET s == LowerLine(description)
        skills == extractTechnicalSkills(s)
        keywords == extractKeywords(s)
    IN  [technicalSkills |-> skills, keywords |-> keywords,
         atsScore |-> calculateATSScore(keywords, skills)]

\* ----------------------------------------------------------- state machine
\* the components that a specification does not exercise stay as constructed
NotExtracted == [fn |-> "", value |-> <<>>]
ExtractIdle == resumeText = <<>> /\ lines = <<>> /\ extracted = NotExtracted
UtilIdle == fnName = "" /\ fnArgs = <<>> /\ fnResult = <<>>
RenderIdle ==
    /\ data = EmptyRecord /\ original = EmptyRecord
    /\ returned = <<>> /\ returnedSame = FALSE
    /\ templateLatex = <<>> /\ latex = <<>> /\ pc = "idle"
    /\ template2 = <<>> /\ latex2 = <<>>
StoreIdle ==
    /\ file = <<>> /\ heap = <<>> /\ recorded = <<>> /\ llmReply = <<>>
    /\ snapshotReturn = <<>> /\ tasks = <<>>

Init ==
    /\ \/ data \in SpliceRecords /\ templateLatex \in Templates
       \/ data \in Records /\ templateLatex \in SampleTemplates
    /\ original = data
    /\ returned = <<>>
    /\ returnedSame = FALSE
    /\ latex = <<>>
    /\ pc = "input"
    /\ template2 = <<>>
    /\ latex2 = <<>>
    /\ ExtractIdle /\ UtilIdle /\ StoreIdle

\* a caller passes its record to validateResumeData, which assigns the
\* defaults onto that object and returns it
ValidateResumeData ==
    /\ pc \in {"input", "validated"}
    /\ Len(returned) < MaxCalls
    /\ data' = validateResumeData(data)
    /\ returned' = Append(returned, data')
    /\ returnedSame' = TRUE
    /\ pc' = "validated"
    /\ UNCHANGED <<original, templateLatex, latex, template2, latex2>>
    /\ UNCHANGED <<extractVars, utilVars, storeVars>>

\* the validated record is rendered into the template; a URIError thrown by
\* encodeURI leaves the caller without a document
GenerateLatexFromResume ==
    /\ pc = "validated"
    /\ IF buildLatexBodyThrows(data)
          THEN pc' = "threw" /\ latex' = latex
          ELSE pc' = "rendered"
               /\ latex' = generateLatexFromResume(data, templateLatex)
    /\ data' = recordAfterRender(data)
    /\ UNCHANGED <<original, returned, returnedSame, templateLatex>>
    /\ UNCHANGED <<template2, latex2, extractVars, utilVars, storeVars>>

Next == ValidateResumeData \/ GenerateLatexFromResume

Spec == Init /\ [][Next]_vars

\* ------------------------------------------------------ rendering twice
\* the same validated record rendered into a second, different template
RerenderTemplates ==
    SampleTemplates \cup {<<"q", beginDelimiter, "p", endDelimiter>>}

InitRerender ==
    /\ data \in Records
    /\ templateLatex \in SampleTemplates
    /\ template2 \in RerenderTemplates /\ template2 # templateLatex
    /\ original = data
    /\ returned = <<>>
    /\ returnedSame = FALSE
    /\ latex = <<>>
    /\ latex2 = <<>>
    /\ pc = "input"
    /\ ExtractIdle /\ UtilIdle /\ StoreIdle

GenerateLatexAgain ==
    /\ pc = "rendered"
    /\ IF buildLatexBodyThrows(data)
          THEN pc' = "threw" /\ latex2' = latex2
          ELSE pc' = "rendered2"
               /\ latex2' = generateLatexFromResume(data, template2)
    /\ data' = recordAfterRender(data)
    /\ UNCHANGED <<original, returned, returnedSame, templateLatex, latex, template2>>
    /\ UNCHANGED <<extractVars, utilVars, storeVars>>

NextRerender == ValidateResumeData \/ GenerateLatexFromResume \/ GenerateLatexAgain

SpecRerender == InitRerender /\ [][NextRerender]_vars

\* ------------------------------------------------------ extractor calls
\* extractExperience and extractSkills called on lines of three families:
\* an experience heading followed by job blocks "P at C | dates" with
\* bullets, a skills heading followed by a line of items, and short
\* sequences over a pool of lines of every kind the extractors tell apart
NameAlphabet == {"D", "a", "t", " "}
Positions ==
    {P \in SeqUpTo(NameAlphabet, MaxNameLen) : P # <<>> /\ Trim(P) = P}
    \cup {<<"Senior", " ", "Developer">>}
Companies == {<<"Tech", " ", "Corp">>, <<"C">>}
BulletLines == {<<Bullet, " ", "x">>, <<Bullet, "D", "x">>}

HeadingRest(C) == <<" ", "a", "t", " ">> \o C \o <<" ", "|", " ", "2020">>
JobBlock(P, C, bullets) == <<P \o HeadingRest(C)>> \o bullets

OneBlockLines ==
    {<<<<"Experience">>>> \o JobBlock(P, C, bullets) :
        P \in Positions, C \in Companies,
        bullets \in SeqUpTo(BulletLines, MaxBullets)}

TwoBlockLines ==
    {<<<<"Experience">>>> \o JobBlock(P, C, b1)
        \o JobBlock(<<"Senior", " ", "Developer">>, <<"C">>, b2) :
        P \in Positions, C \in Companies,
        b1 \in SeqUpTo(BulletLines, 1), b2 \in SeqUpTo(BulletLines, 1)}

SkillPool ==
    {<<"JavaScript">>, <<"React">>, <<"Node", ".", "js">>, <<"Leadership">>,
     <<"Cooking">>, <<"SQL", " ", "Communication">>,
     <<"Problem", "-", "Solving">>}

TestSkillsLine ==
    <<"JavaScript", ",", " ", "Python", ",", " ", "React", ",", " ",
      "Node", ".", "js", ",", " ", "SQL", ",", " ", "Git", ",", " ",
      "Docker", ",", " ", "AWS">>

SkillsLines ==
    {<<<<"Skills">>, Join(items, <<",", " ">>)>> :
        items \in SeqUpTo(SkillPool, MaxSkills) \ {<<>>}}
    \cup {<<<<"Skills">>, TestSkillsLine>>}

LinePool ==
    {<<"Experience">>, <<"Skills">>, <<"Education">>,
     <<"D", "x", " ", "a", "t", " ", "C">>,
     <<"D", "x", " ", "|", " ", "C">>,
     <<"D", "x", "x", "x", "x", "x">>,
     <<Bullet, " ", "x">>, <<"-", "x">>,
     <<"React", ",", " ", "Cooking">>}

\* a summary heading followed by lines of 9, 10, 11 and 13 characters and
\* by section headers
SummaryHeadings == {<<"Summary">>, <<"About", " ", "D">>}
SummaryPool ==
    {<<"Developer">>, <<"Leadership">>, <<"Leadership", "x">>,
     <<"Communication">>, <<"Skills">>}
SummaryLines ==
    {<<heading>> \o body :
        heading \in SummaryHeadings, body \in SeqUpTo(SummaryPool, MaxSummaryBody)}

EducationPool ==
    {<<"D", "x", ",", " ", "University", ",", "C", ",", " ", "x">>,
     <<"Leadership", ",", " ", "College">>,
     <<",", "Communication">>, <<"Communication", ",">>,
     <<"Developer">>, <<"Academic", " ", "Tech">>, <<"Skills">>,
     <<Bullet, " ", "Leadership", ",", "x">>}
EducationLines ==
    {<<<<"Education">>>> \o body :
        body \in SeqUpTo(EducationPool, MaxEducationLines)}

ContactPool ==
    {<<"D", "x">>, <<"D", ",", " ", "C">>,
     <<"d", ".", "x", "@", "x", ".", "io">>,
     <<"(", "5", "5", "5", ")", " ", "1", "2", "3", "-", "4", "5", "6", "7">>,
     <<"5", "5", "5", "1", "2", "3", "2020", "5">>,
     <<"linkedin", ".", "com", "/", "in", "/", "d", "-", "x", " ", "|", " ",
       "GitHub", ".", "com", "/", "d">>}
ContactLines == SeqUpTo(ContactPool, MaxContactLines)

InitExtract ==
    /\ lines \in OneBlockLines \cup TwoBlockLines \cup SkillsLines
                \cup SeqUpTo(LinePool, MaxLines)
                \cup SummaryLines \cup EducationLines \cup ContactLines
    /\ resumeText = <<>>
    /\ extracted = NotExtracted
    /\ RenderIdle /\ UtilIdle /\ StoreIdle

ExtractExperience ==
    /\ extracted.fn = ""
    /\ extracted' = [fn |-> "extractExperience", value |-> extractExperience(lines)]
    /\ UNCHANGED <<resumeText, lines, renderVars, utilVars, storeVars>>

ExtractSkills ==
    /\ extracted.fn = ""
    /\ extracted' = [fn |-> "extractSkills", value |-> extractSkills(lines)]
    /\ UNCHANGED <<resumeText, lines, renderVars, utilVars, storeVars>>

ExtractSummary ==
    /\ extracted.fn = ""
    /\ extracted' = [fn |-> "extractSummary", value |-> extractSummary(lines)]
    /\ UNCHANGED <<resumeText, lines, renderVars, utilVars, storeVars>>

ExtractEducation ==
    /\ extracted.fn = ""
    /\ extracted' = [fn |-> "extractEducation", value |-> extractEducation(lines)]
    /\ UNCHANGED <<resumeText, lines, renderVars, utilVars, storeVars>>

ExtractPersonalInfo ==
    /\ extracted.fn = ""
    /\ extracted' =
           [fn |-> "extractPersonalInfo", value |-> extractPersonalInfo(lines)]
    /\ UNCHANGED <<resumeText, lines, renderVars, utilVars, storeVars>>

NextExtract ==
    \/ ExtractExperience \/ ExtractSkills \/ ExtractSummary
    \/ ExtractEducation \/ ExtractPersonalInfo

SpecExtract == InitExtract /\ [][NextExtract]_vars

\* ------------------------------------------------------------- parsing
\* extractResumeData called on the text of a file: lines of every kind, with
\* blank lines and white space around them, joined by newlines
RawLinePool ==
    {<<>>, <<" ">>, <<" ", "Experience", " ">>,
     <<"D", "x", " ", "a", "t", " ", "C">>, <<Bullet, " ", "x">>,
     <<"Summary">>, <<"\t", "Leadership", "x", " ">>,
     <<"Skills">>, <<"React", ",", " ", "Cooking">>,
     <<"Education">>, <<"Leadership", ",", " ", "College">>,
     <<"d", ".", "x", "@", "x", ".", "io">>}

SampleText ==
    Join(<<<<"D", "x">>,
           <<"d", ".", "x", "@", "x", ".", "io", " ", "|", " ",
             "(", "5", "5", "5", ")", " ", "1", "2", "3", "-", "4", "5", "6", "7">>,
           <<"D", ",", " ", "C">>,
           <<>>,
           <<"Summary">>, <<"Leadership", "x">>,
           <<"Experience">>,
           <<"Senior", " ", "Developer", " ", "a", "t", " ", "Tech", " ",
             "Corp", " ", "|", " ", "2020">>,
           <<Bullet, " ", "x">>,
           <<"Education">>, <<"Leadership", ",", " ", "College">>,
           <<"Skills">>, <<"React", ",", " ", "Cooking">>>>, <<"\n">>)

Texts ==
    {Join(raw, <<"\n">>) : raw \in SeqUpTo(RawLinePool, MaxTextLines)}
    \cup {SampleText}

InitParse ==
    /\ resumeText \in Texts
    /\ lines = <<>>
    /\ extracted = NotExtracted
    /\ RenderIdle /\ UtilIdle /\ StoreIdle

ExtractResumeData ==
    /\ extracted.fn = ""
    /\ lines' = SplitLines(resumeText)
    /\ extracted' =
           [fn |-> "extractResumeData", value |-> extractResumeData(resumeText)]
    /\ UNCHANGED <<resumeText, renderVars, utilVars, storeVars>>

NextParse == ExtractResumeData

SpecParse == InitParse /\ [][NextParse]_vars

\* ------------------------------------------------------ conversation store
\* The store keeps the conversations in one JSON file: what it holds are
\* values.  The objects its callers hold are in a heap, by reference, so that
\* a record object changed in place after a call is seen by everything that
\* still refers to it.  Identifiers and timestamps are left out.
getEmptyResume ==
    [personalInfo |-> DefaultPersonalInfo, summary |-> <<>>,
     experience |-> <<>>, education |-> <<>>, skills |-> <<>>,
     projects |-> <<>>, certifications |-> <<>>, awards |-> <<>>]

\* JSON.parse(JSON.stringify(resume)): the value of a record of strings and
\* arrays comes back as it was, in a new object, here the next free reference
cloneResume_SameObject(h, ref) == ref

cloneResume(h, ref) == Len(h) + 1

\* the heap once the object of reference newRef exists as a copy of ref
HeapWithCopy(h, ref, newRef) == IF newRef > Len(h) THEN Append(h, h[ref]) ELSE h

\* { ...conversation, ...updates }
Merge(conversation, updates) ==
    [k \in DOMAIN conversation \cup DOMAIN updates |->
        IF k \in DOMAIN updates THEN updates[k] ELSE conversation[k]]

updateConversation(f, id, updates) ==
    IF id \notin DOMAIN f THEN f ELSE [f EXCEPT ![id] = Merge(f[id], updates)]

updateConversationLatex(f, id, latexResume) ==
    updateConversation(f, id, [currentLatexResume |-> latexResume])

addMessage_AtFront(f, id, message) ==
    IF id \notin DOMAIN f THEN f
    ELSE updateConversation(f, id, [f[id] EXCEPT !.messages = <<message>> \o @])

addMessage(f, id, message) ==
    IF id \notin DOMAIN f THEN f
    ELSE updateConversation(f, id, [f[id] EXCEPT !.messages = Append(@, message)])

\* the snapshot addResumeSnapshot builds, numbered from the list's length
snapshotOf_SameVersion(f, id, value) ==
    [version |-> Len(f[id].resumeSnapshots), data |-> value]

snapshotOf(f, id, value) ==
    [version |-> Len(f[id].resumeSnapshots) + 1, data |-> value]

\* addResumeSnapshot with the value the clone holds
addResumeSnapshot(f, id, value) ==
    IF id \notin DOMAIN f THEN f
    ELSE updateConversation(f, id,
             [f[id] EXCEPT !.resumeSnapshots = Append(@, snapshotOf(f, id, value)),
                           !.currentResume = value])

\* what a store method returns for a conversation it does not find, as an
\* object that differs from every snapshot
Null == [null |-> TRUE]

\* PUT /:id keeps the fields it allows
allowedFields == {"jobTitle", "company", "jobDescription", "status"}
filteredUpdates_All(updates) == updates

filteredUpdates(updates) == [k \in DOMAIN updates \cap allowedFields |-> updates[k]]

\* POST /:id/message
OptimizeWords == {"optimize", "tailor", "update", "improve"}
isOptimizationRequest(content, conversation) ==
    \/ \E w \in OptimizeWords : Includes(content, w)
    \/ Truthy(Get(conversation, "jobDescription"))

ConversationFallback == <<"I understand you'd like to make changes to your resume.">>

\* what processUserMessage returns: on the LaTeX path the raw reply as a
\* latex_update, otherwise the parsed reply; the fallback when callLLM throws
LatexResponse(latexContent) == [message |-> latexContent, action |-> "latex_update"]
FallbackResponse == [message |-> ConversationFallback, action |-> "no_change"]

RecordB == [getEmptyResume EXCEPT !.summary = <<"b">>]
LatexOf == [empty |-> <<>>, x |-> <<"x">>]
ParsedOf ==
    [json |-> [message |-> <<"o", "k">>, action |-> "modify_summary",
               updatedResume |-> RecordB]]
LlmReplies == {"throws", "empty", "x", "json"}

\* callLLM: one request with the primary model and, when that fails and the
\* fallback model has another name, one with the fallback model; the reply
\* of the first request that succeeds, a throw when none does
callLLM_PrimaryOnly(call) ==
    [reply |-> call.primary, attempts |-> <<"primary">>]

callLLM(call) ==
    IF call.primary # "throws"
        THEN [reply |-> call.primary, attempts |-> <<"primary">>]
    ELSE IF call.fallbackDiffers
        THEN [reply |-> call.fallback, attempts |-> <<"primary", "fallback">>]
    ELSE [reply |-> "throws", attempts |-> <<"primary">>]

\* the reply of callLLM is a throw, or a text: one the parser reads as a
\* response object, or any other, taken as LaTeX on the LaTeX path
processUserMessage(reply, withLatex) ==
    IF reply = "throws" THEN FallbackResponse
    ELSE IF withLatex
        THEN LatexResponse(IF reply \in DOMAIN LatexOf THEN LatexOf[reply] ELSE <<reply>>)
    ELSE IF reply \in DOMAIN ParsedOf THEN ParsedOf[reply]
    ELSE [message |-> <<reply>>, action |-> "no_change"]

\* ---- inputs
ConvIds == {"c1", "c9"}
StoredLatex == <<"p", beginDelimiter, "q", endDelimiter, "p">>
RecordA == [getEmptyResume EXCEPT !.summary = <<"a">>]
StoreRecords == {getEmptyResume, RecordA, RecordB}
NewConversation ==
    [messages |-> <<>>, resumeSnapshots |-> <<>>, currentResume |-> getEmptyResume,
     status |-> "active"]
Contents == {<<"optimize">>, <<"h", "i">>}
PutBodies ==
    {[status |-> "completed"], [jobDescription |-> <<"j">>],
     [resumeSnapshots |-> <<>>]}

\* the bodies of POST /:id/message, role 'user' when the body names none
UserBodies == {[content |-> content] : content \in Contents}
PostBodies == UserBodies \cup {[content |-> <<"h", "i">>, role |-> "system"]}
RoleOf(body) == IF Has(body, "role") THEN body.role ELSE "user"

\* the outcomes of the requests callLLM may make, and whether the fallback
\* model has another name than the primary one
PrimaryCalls ==
    {[primary |-> reply, fallback |-> "throws", fallbackDiffers |-> FALSE] :
        reply \in LlmReplies}
LlmCalls ==
    PrimaryCalls
    \cup {[primary |-> "throws", fallback |-> reply, fallbackDiffers |-> TRUE] :
             reply \in {"throws", "x"}}

NoReply ==
    [status |-> 0, response |-> <<>>, latexSent |-> <<>>, latexStored |-> <<>>,
     id |-> "", body |-> <<>>, call |-> <<>>, attempts |-> <<>>]
NoReturn == [id |-> "", value |-> [none |-> TRUE]]

InitStore ==
    /\ file \in {[c \in {"c1"} |-> Merge(NewConversation, extra)] :
                    extra \in {EmptyRecord, [currentLatexResume |-> StoredLatex]}}
    /\ heap = <<RecordA>>
    /\ recorded = <<>>
    /\ llmReply = NoReply
    /\ snapshotReturn = NoReturn
    /\ tasks = <<>>
    /\ RenderIdle /\ ExtractIdle /\ UtilIdle

RoomForMessages(id, n) == id \in DOMAIN file => Len(file[id].messages) + n <= MaxMessages
RoomForSnapshot(id) == id \in DOMAIN file => Len(file[id].resumeSnapshots) < MaxSnapshots

\* a caller changes its record object in place
MutateRecord ==
    /\ \E value \in StoreRecords \ {heap[1]} : heap' = [heap EXCEPT ![1] = value]
    /\ UNCHANGED <<file, recorded, llmReply, snapshotReturn, tasks, renderVars, extractVars,
                   utilVars>>

AddMessage ==
    /\ \E id \in ConvIds :
          /\ RoomForMessages(id, 1)
          /\ file' = addMessage(file, id, [role |-> "system", content |-> <<"h", "i">>])
    /\ UNCHANGED <<heap, recorded, llmReply, snapshotReturn, tasks, renderVars, extractVars,
                   utilVars>>

\* addResumeSnapshot(id, r) for the caller's record object r, reference 1
AddResumeSnapshot ==
    /\ \E id \in ConvIds :
          /\ RoomForSnapshot(id)
          /\ LET dataRef == cloneResume(heap, 1)
                 copied == HeapWithCopy(heap, 1, dataRef)
             IN  IF id \notin DOMAIN file
                     THEN /\ snapshotReturn' = [id |-> id, value |-> Null]
                          /\ UNCHANGED <<file, heap, recorded>>
                     ELSE /\ file' = addResumeSnapshot(file, id, copied[dataRef])
                          /\ snapshotReturn' =
                                [id |-> id,
                                 value |-> snapshotOf(file, id, copied[dataRef])]
                          /\ heap' = copied
                          /\ recorded' = Append(recorded,
                                [id |-> id,
                                 version |-> Len(file[id].resumeSnapshots) + 1,
                                 ref |-> dataRef, data |-> copied[dataRef]])
    /\ UNCHANGED <<llmReply, tasks, renderVars, extractVars, utilVars>>

\* PUT /:id
UpdateConversation ==
    /\ \E id \in ConvIds, body \in PutBodies :
          IF DOMAIN filteredUpdates(body) = {} THEN file' = file
          ELSE file' = updateConversation(file, id, filteredUpdates(body))
    /\ UNCHANGED <<heap, recorded, llmReply, snapshotReturn, tasks, renderVars, extractVars,
                   utilVars>>

UpdateConversationLatex ==
    /\ \E id \in ConvIds, latexResume \in {StoredLatex, <<"x">>} :
          file' = updateConversationLatex(file, id, latexResume)
    /\ UNCHANGED <<heap, recorded, llmReply, snapshotReturn, tasks, renderVars, extractVars,
                   utilVars>>

\* POST /:id/message, from the user's message to the response
HandleMessage(id, body, call) ==
    IF id \notin DOMAIN file
        THEN /\ llmReply' = [NoReply EXCEPT !.status = 404, !.id = id, !.body = body]
             /\ UNCHANGED <<file, heap, recorded, snapshotReturn>>
        ELSE LET content == body.content
                 f1 == addMessage(file, id, [role |-> RoleOf(body), content |-> content])
                 currentConversation == f1[id]
                 latexPath ==
                     /\ isOptimizationRequest(content, currentConversation)
                     /\ Truthy(Get(currentConversation, "currentLatexResume"))
                 called == callLLM(call)
                 llmResponse == processUserMessage(called.reply, latexPath)
                 storesLatex ==
                     /\ latexPath
                     /\ Truthy(llmResponse.message)
                     /\ llmResponse.action = "latex_update"
                 f2 == IF storesLatex
                          THEN updateConversationLatex(f1, id, llmResponse.message)
                          ELSE f1
                 f3 == addMessage(f2, id, [role |-> "assistant",
                                           content |-> llmResponse.message])
                 h1 == IF Has(llmResponse, "updatedResume")
                          THEN Append(heap, llmResponse.updatedResume)
                          ELSE heap
                 dataRef == cloneResume(h1, Len(h1))
                 copied == HeapWithCopy(h1, Len(h1), dataRef)
             IN  /\ llmReply' =
                       [status |-> 200, response |-> llmResponse,
                        latexSent |-> Get(currentConversation, "currentLatexResume"),
                        latexStored |-> Get(f2[id], "currentLatexResume"),
                        id |-> id, body |-> body, call |-> call,
                        attempts |-> called.attempts]
                 /\ IF Has(llmResponse, "updatedResume")
                       THEN /\ file' = addResumeSnapshot(f3, id, copied[dataRef])
                            /\ snapshotReturn' =
                                  [id |-> id,
                                   value |-> snapshotOf(f3, id, copied[dataRef])]
                            /\ heap' = copied
                            /\ recorded' = Append(recorded,
                                  [id |-> id,
                                   version |-> Len(f3[id].resumeSnapshots) + 1,
                                   ref |-> dataRef, data |-> copied[dataRef]])
                       ELSE /\ file' = f3
                            /\ UNCHANGED <<heap, recorded, snapshotReturn>>

PostMessage ==
    /\ \E id \in ConvIds, body \in UserBodies, call \in PrimaryCalls :
          /\ RoomForMessages(id, 2)
          /\ RoomForSnapshot(id)
          /\ HandleMessage(id, body, call)
    /\ UNCHANGED <<tasks, renderVars, extractVars, utilVars>>

NextStore ==
    \/ MutateRecord
    \/ AddMessage
    \/ AddResumeSnapshot
    \/ UpdateConversation
    \/ UpdateConversationLatex
    \/ PostMessage

SpecStore == InitStore /\ [][NextStore]_vars

\* ------------------------------------------------------- message requests
\* POST /:id/message requests handled one after another, nothing else
\* writing to the store
RoomForRequest(id) ==
    id \in DOMAIN file => Len(file[id].messages) + 2 <= MaxRequests * 2

PostMessages ==
    /\ \E id \in ConvIds, body \in PostBodies, call \in LlmCalls :
          /\ RoomForRequest(id)
          /\ RoomForSnapshot(id)
          /\ HandleMessage(id, body, call)
    /\ UNCHANGED <<tasks, renderVars, extractVars, utilVars>>

NextPost == PostMessages

SpecPost == InitStore /\ [][NextPost]_vars

\* ------------------------------------------------- operations in flight
\* Two store operations run at the same time.  Each method is a chain of
\* awaits: getConversation reads the file (addMessage and addResumeSnapshot
\* change the conversation object it returned), the method that writes reads
\* the file again into its array, changes the array and hands it to
\* writeJson.  Another operation may read or write between any two of them.
Tasks == {1, 2}

createConversation(f, id, conversation) ==
    [k \in DOMAIN f \cup {id} |-> IF k = id THEN conversation ELSE f[k]]

deleteConversation(f, id) == [k \in DOMAIN f \ {id} |-> f[k]]

RaceFile == [c \in {"c1", "c2"} |-> NewConversation]

\* the operations task t may be: its message and the conversation it
\* creates are its own
OwnMark(t) == IF t = 1 THEN "1" ELSE "2"
OwnId(t) == IF t = 1 THEN "n1" ELSE "n2"
OperationsOf(t) ==
    {[op |-> "addMessage", id |-> id,
      arg |-> [role |-> "user", content |-> <<"m", OwnMark(t)>>]] : id \in {"c1", "c2", "c9"}}
    \cup {[op |-> "addResumeSnapshot", id |-> "c1",
           arg |-> IF t = 1 THEN RecordA ELSE RecordB],
          [op |-> "updateConversation", id |-> "c1", arg |-> [status |-> "completed"]],
          [op |-> "updateConversation", id |-> "c9", arg |-> [status |-> "completed"]],
          [op |-> "createConversation", id |-> OwnId(t), arg |-> NewConversation],
          [op |-> "deleteConversation", id |-> "c2", arg |-> <<>>],
          [op |-> "deleteConversation", id |-> "c9", arg |-> <<>>]}

Called(operation) ==
    [op |-> operation.op, id |-> operation.id, arg |-> operation.arg,
     pc |-> "called", conversation |-> <<>>, conversations |-> <<>>]

InitRace ==
    /\ file = RaceFile
    /\ tasks \in {[t \in Tasks |-> Called(IF t = 1 THEN a ELSE b)] :
                     a \in OperationsOf(1), b \in OperationsOf(2)}
    /\ heap = <<>> /\ recorded = <<>> /\ llmReply = <<>> /\ snapshotReturn = <<>>
    /\ RenderIdle /\ ExtractIdle /\ UtilIdle

FindsFirst == {"addMessage", "addResumeSnapshot"}

\* the conversation object of addMessage and addResumeSnapshot once the
\* method has changed it
Changed(task, conversation) ==
    IF task.op = "addMessage"
        THEN [conversation EXCEPT !.messages = Append(@, task.arg)]
        ELSE [conversation EXCEPT
                 !.resumeSnapshots =
                     Append(@, [version |-> Len(@) + 1, data |-> task.arg]),
                 !.currentResume = task.arg]

\* await this.getConversation(id) of addMessage and addResumeSnapshot
GetConversation(t) ==
    /\ tasks[t].pc = "called"
    /\ tasks[t].op \in FindsFirst
    /\ tasks' = [tasks EXCEPT ![t] =
                    IF tasks[t].id \notin DOMAIN file
                       THEN [tasks[t] EXCEPT !.pc = "done"]
                       ELSE [tasks[t] EXCEPT
                                !.pc = "found",
                                !.conversation = Changed(tasks[t], file[tasks[t].id])]]
    /\ UNCHANGED <<file, heap, recorded, llmReply, snapshotReturn, renderVars,
                   extractVars, utilVars>>

\* await this.getAllConversations() of the method that writes
ReadConversations(t) ==
    /\ tasks[t].pc = IF tasks[t].op \in FindsFirst THEN "found" ELSE "called"
    /\ tasks' = [tasks EXCEPT ![t] =
                    [tasks[t] EXCEPT !.pc = "read", !.conversations = file]]
    /\ UNCHANGED <<file, heap, recorded, llmReply, snapshotReturn, renderVars,
                   extractVars, utilVars>>

\* the array the method hands to writeJson
Written(task) ==
    CASE task.op \in FindsFirst ->
             updateConversation(task.conversations, task.id, task.conversation)
      [] task.op = "updateConversation" ->
             updateConversation(task.conversations, task.id, task.arg)
      [] task.op = "createConversation" ->
             createConversation(task.conversations, task.id, task.arg)
      [] task.op = "deleteConversation" ->
             deleteConversation(task.conversations, task.id)

\* updateConversation returns before writing when it does not find the id,
\* deleteConversation when it filtered nothing out
Writes(task) ==
    task.op = "createConversation" \/ task.id \in DOMAIN task.conversations

\* await fs.writeJson(this.conversationsFile, conversations)
WriteConversations(t) ==
    /\ tasks[t].pc = "read"
    /\ file' = IF Writes(tasks[t]) THEN Written(tasks[t]) ELSE file
    /\ tasks' = [tasks EXCEPT ![t] = [tasks[t] EXCEPT !.pc = "done"]]
    /\ UNCHANGED <<heap, recorded, llmReply, snapshotReturn, renderVars, extractVars,
                   utilVars>>

NextRace ==
    \E t \in Tasks :
        \/ GetConversation(t)
        \/ ReadConversations(t)
        \/ WriteConversations(t)

SpecRace == InitRace /\ [][NextRace]_vars

\* ------------------------------------------------------------ utility calls
\* formatDateRange, normalizeUrl and escapeLatex called on their own, on
\* arguments drawn from small alphabets; an argument that is not passed
\* (undefined) is a key the argument object does not hold
DateAlphabet == {" ", "2", "J"}
DateValues == SeqUpTo(DateAlphabet, MaxDateLen)
DateArgs ==
    {[k \in K |-> v[k]] : K \in SUBSET {"start", "end"},
                          v \in [{"start", "end"} -> DateValues]}

UrlAlphabet == {" ", "mailto:", "http://", "HTTPS://", "MAILTO:", "a", "{", LoneSurrogate}
UrlValues == SeqUpTo(UrlAlphabet, MaxUrlLen)
UrlArgs == {[k \in {} |-> <<>>]} \cup {[url |-> u] : u \in UrlValues}

TextAlphabet == {"\\", "{", "&", "<", ">", "\n", "a"}
TextValues == SeqUpTo(TextAlphabet, MaxTextLen)
TextArgs == {[text |-> t] : t \in TextValues}

Returned(v) == [kind |-> "value", value |-> v]
ReturnedNull == [kind |-> "null", value |-> <<>>]
Threw == [kind |-> "threw", value |-> <<>>]

InitUtil ==
    /\ fnName = ""
    /\ fnArgs \in DateArgs \cup UrlArgs \cup TextArgs
    /\ fnResult = <<>>
    /\ RenderIdle /\ ExtractIdle /\ StoreIdle

FormatDateRange ==
    /\ fnName = "" /\ fnArgs \in DateArgs
    /\ fnName' = "formatDateRange"
    /\ fnResult' = Returned(formatDateRange(Get(fnArgs, "start"), Get(fnArgs, "end")))
    /\ UNCHANGED <<fnArgs, renderVars, extractVars, storeVars>>

NormalizeUrl ==
    /\ fnName = "" /\ fnArgs \in UrlArgs
    /\ fnName' = "normalizeUrl"
    /\ fnResult' =
          IF normalizeUrlIsNull(Get(fnArgs, "url")) THEN ReturnedNull
          ELSE IF normalizeUrlThrows(Get(fnArgs, "url")) THEN Threw
          ELSE Returned(normalizeUrl(Get(fnArgs, "url")))
    /\ UNCHANGED <<fnArgs, renderVars, extractVars, storeVars>>

EscapeLatex ==
    /\ fnName = "" /\ fnArgs \in TextArgs
    /\ fnName' = "escapeLatex"
    /\ fnResult' = Returned(escapeLatex(Get(fnArgs, "text")))
    /\ UNCHANGED <<fnArgs, renderVars, extractVars, storeVars>>

NextUtil == FormatDateRange \/ NormalizeUrl \/ EscapeLatex

SpecUtil == InitUtil /\ [][NextUtil]_vars

\* ------------------------------------------------------- job descriptions
\* analyzeJobDescription called on descriptions that hold a lead sentence,
\* then numbered words and then skills, as many of each as the bounds allow
JobLeads ==
    {<<>>,
     <<"Senior", " ", "Python", " ", "Developer", " ", "needed", " ", "with",
       " ", "experience", " ", "and", " ", "Python", ".", "\n">>}

JobSkillPhrases ==
    <<<<"go">>, <<"php">>, <<"SQL">>, <<"AWS">>, <<"Git">>, <<"css">>,
      <<"vue">>, <<"ios">>, <<"React", " ", "native">>, <<"Docker">>,
      <<"Java">>, <<"Node">>, <<"JavaScript">>, <<"kubernetes">>,
      <<"asp", "-", "net">>, <<"github", " ", "actions">>, <<"typescript">>,
      <<"c", "+", "+">>, <<"c", "#">>>>

Describe(lead, k, t) ==
    lead
    \o Join([i \in 1..k |-> <<JobFillers[i]>>], <<" ">>)
    \o <<"\n">>
    \o Join(SubSeq(JobSkillPhrases, 1, t), <<",", " ">>)

JobArgs ==
    {[description |-> Describe(lead, k, t)] :
        lead \in JobLeads, k \in 0..MaxJobWords, t \in 0..MaxJobSkills}

InitAnalyze ==
    /\ fnName = ""
    /\ fnArgs \in JobArgs
    /\ fnResult = <<>>
    /\ RenderIdle /\ ExtractIdle /\ StoreIdle

AnalyzeJobDescription ==
    /\ fnName = ""
    /\ fnName' = "analyzeJobDescription"
    /\ fnResult' = Returned(analyzeJobDescription(fnArgs.description))
    /\ UNCHANGED <<fnArgs, renderVars, extractVars, storeVars>>

NextAnalyze == AnalyzeJobDescription

SpecAnalyze == InitAnalyze /\ [][NextAnalyze]_vars

\* ---------------------------------------------------------------- claims
\* number of positions of s that hold tok
Count(s, tok) == Cardinality({i \in 1..Len(s) : s[i] = tok})

IsPrefix(p, s) == Len(p) <= Len(s) /\ SubSeq(s, 1, Len(p)) = p

IsSuffix(p, s) == Len(p) <= Len(s) /\ SubSeq(s, Len(s) - Len(p) + 1, Len(s)) = p

FirstIndex(s, tok) ==
    CHOOSE k \in 1..Len(s) : s[k] = tok /\ \A j \in 1..(k - 1) : s[j] # tok

\* the text of s before, and after, the first occurrence of tok
TextBefore(s, tok) == SubSeq(s, 1, FirstIndex(s, tok) - 1)
TextAfter(s, tok) == SubSeq(s, FirstIndex(s, tok) + 1, Len(s))

HasBegin == Includes(templateLatex, beginDelimiter)
HasEnd == Includes(templateLatex, endDelimiter)
OneBegin == Count(templateLatex, beginDelimiter) = 1

\* the preamble, the rest and the postamble of the splicing algorithm: the
\* template is cut at its first begin marker, the rest at its first end marker
SplicePreamble == TextBefore(templateLatex, beginDelimiter)
SpliceRest == TextAfter(templateLatex, beginDelimiter)
SplicePostamble ==
    IF Includes(SpliceRest, endDelimiter) THEN TextAfter(SpliceRest, endDelimiter)
                                          ELSE <<>>

\* C1 as stated: for every template that holds both markers, the document
\* begins with the template's text up to its begin marker and ends with the
\* template's text from its end marker on.
C1_Original ==
    (pc = "rendered" /\ HasBegin /\ HasEnd)
    => /\ IsPrefix(SplicePreamble \o <<beginDelimiter>>, latex)
       /\ IsSuffix(<<endDelimiter>> \o TextAfter(templateLatex, endDelimiter), latex)

\* C1 amended: for every template that holds the begin marker exactly once and
\* an end marker after it, the document begins with the template's text up to
\* the begin marker and ends with the template's text from the first end
\* marker after the begin marker on, whatever the record is.
C1_PreambleAndPostamblePreserved ==
    (pc = "rendered" /\ OneBegin /\ Includes(SpliceRest, endDelimiter))
    => /\ IsPrefix(SplicePreamble \o <<beginDelimiter>>, latex)
       /\ IsSuffix(<<endDelimiter>> \o TextAfter(SpliceRest, endDelimiter), latex)

C1_Witness ==
    /\ pc = "rendered" /\ OneBegin /\ Includes(SpliceRest, endDelimiter)
    /\ SplicePreamble # <<>>
    /\ TextAfter(SpliceRest, endDelimiter) # <<>>
    /\ data = validateResumeData(SampleRecord)

\* C2 as stated: for every template that holds the begin marker, the document
\* is preamble + begin marker + newline + body + newline + end marker +
\* postamble, the body generated from the record alone.
C2_Original ==
    (pc = "rendered" /\ HasBegin)
    => latex = SplicePreamble \o <<beginDelimiter, "\n">> \o buildLatexBody(data)
               \o <<"\n", endDelimiter>> \o SplicePostamble

\* C2 amended: the same for every template that holds the begin marker
\* exactly once.
C2_BodyReplaced ==
    (pc = "rendered" /\ OneBegin)
    => latex = SplicePreamble \o <<beginDelimiter, "\n">> \o buildLatexBody(data)
               \o <<"\n", endDelimiter>> \o SplicePostamble

C2_Witness ==
    /\ pc = "rendered" /\ OneBegin /\ Includes(SpliceRest, endDelimiter)
    /\ TextBefore(SpliceRest, endDelimiter) # <<>>
    /\ SplicePostamble # <<>>

\* C3: for a template that holds the begin marker and no end marker, the
\* document is the template's preamble, the begin marker, the generated body
\* and a closing end marker, and nothing follows that end marker.
C3_MissingEndMarker ==
    (pc = "rendered" /\ HasBegin /\ ~HasEnd)
    => latex = SplicePreamble \o <<beginDelimiter, "\n">> \o buildLatexBody(data)
               \o <<"\n", endDelimiter>>

C3_Witness ==
    /\ pc = "rendered" /\ HasBegin /\ ~HasEnd
    /\ SplicePreamble # <<>> /\ SpliceRest # <<>>

\* C4 as stated: for a template without the begin marker the call does not
\* fail and returns the default preamble, the begin marker, the generated body
\* and the end marker, with nothing after it.
C4_Original ==
    (pc \in {"rendered", "threw"} /\ ~HasBegin)
    => /\ pc = "rendered"
       /\ latex = getDefaultPreamble \o <<beginDelimiter, "\n">>
                  \o buildLatexBody(data) \o <<"\n", endDelimiter>>

\* C5 as stated: rendering a record that validateResumeData returned never
\* throws.
C5_Original == pc # "threw"

\* an experience entry none of whose bullets holds text (no bullets at all
\* included) is rendered with the fallback sentence
NoBulletText(exp) ==
    \A j \in 1..Len(Get(exp, "bullets")) : Trim(Get(exp, "bullets")[j]) = <<>>

\* C6: the body holds the experience fallback sentence once for each
\* experience entry without bullet text, and every item list of the document
\* opens with an item.
C6_FallbackBullets ==
    pc = "rendered"
    => /\ Count(latex, ExperienceFallback)
            = Cardinality({i \in 1..Len(data.experience) :
                              NoBulletText(data.experience[i])})
       /\ \A i \in 1..Len(latex) :
            latex[i] = ItemListStart
            => i + 2 <= Len(latex) /\ latex[i + 1] = "\n" /\ latex[i + 2] = ItemOpen

C6_Witness ==
    /\ pc = "rendered"
    /\ \E i, j \in 1..Len(data.experience) :
          /\ Get(data.experience[i], "bullets") = <<>>
          /\ ~NoBulletText(data.experience[j])
    /\ Count(latex, ExperienceFallback) = 1

LastReturned == returned[Len(returned)]

\* C7 as stated: the returned record's personalInfo holds all seven keys, the
\* empty string for each key the input lacked, and all six collections are
\* present.
C7_Original ==
    pc = "validated"
    => /\ DOMAIN LastReturned.personalInfo = PersonalInfoKeys
       /\ \A k \in PersonalInfoKeys \ DOMAIN Get(original, "personalInfo") :
             LastReturned.personalInfo[k] = <<>>
       /\ CollectionKeys \subseteq DOMAIN LastReturned

\* C8: validating a record that validateResumeData returned gives that record
\* again.
C8_Idempotent ==
    \A i \in 2..Len(returned) : returned[i] = returned[1]

C8_Witness == Len(returned) >= 2 /\ returned[1] # original

\* C9 as stated: the call leaves the caller's object as it was and returns a
\* separate record.
C9_Original ==
    (pc = "validated" /\ Len(returned) = 1)
    => data = original /\ ~returnedSame

\* C10 as stated: every experience entry of a returned record has a bullets
\* sequence.
C10_Original ==
    pc = "validated"
    => \A i \in 1..Len(LastReturned.experience) :
          Has(LastReturned.experience[i], "bullets")

\* ---- C14
Present(v) == Trim(v) # <<>>

C15_Original ==
    fnName = "normalizeUrl" =>
        LET url == Get(fnArgs, "url")
            value == Trim(url)
        IN  IF ~Present(url) THEN fnResult.kind = "null"
            ELSE /\ fnResult.kind = "value"
                 /\ fnResult.value =
                       IF Head(value) \in {"mailto:"} \cup HttpPrefixes
                           THEN ReplaceEach(PercentEscape, value)
                           ELSE <<"https://">> \o ReplaceEach(PercentEscape, value)

\* ---- C17
\* the replacement of one input character, were each character escaped once
EscapeOnce(c) ==
    CASE c = "\n" -> <<" ">>
      [] c = "\\" -> <<"\\", "textbackslash", "{", "}">>
      [] c \in ReservedClass -> <<"\\", c>>
      [] c = "<" -> <<"\\", "textless", "{", "}">>
      [] c = ">" -> <<"\\", "textgreater", "{", "}">>
      [] OTHER -> <<c>>

\* C17: escapeLatex escapes each character of its input exactly once: the
\* output is the concatenation of the replacements of the input characters,
\* and no replacement is altered by a later step.
C17_Original ==
    fnName = "escapeLatex" =>
        fnResult.value = ReplaceEach(EscapeOnce, Get(fnArgs, "text"))

\* ---- C16
\* the link targets of a document: what stands between an href opening and
\* the brace pair that closes it
RECURSIVE TargetFrom(_, _)
TargetFrom(doc, i) ==
    IF i > Len(doc) \/ doc[i] = "}{" THEN <<>>
    ELSE <<doc[i]>> \o TargetFrom(doc, i + 1)

LinkTargets(doc) ==
    {TargetFrom(doc, i + 1) : i \in {j \in 1..Len(doc) : doc[j] = "\\href{"}}

\* every character is one encodeURI leaves alone, or the % of an escape
IsEncoded(target) ==
    \A i \in 1..Len(target) : target[i] = "%" \/ PercentEscape(target[i]) = <<target[i]>>

\* C16: every hyperlink target of a rendered document (the mailto link, the
\* linkedin, github and website links, the project links) is percent-encoded:
\* no character that encodeURI would encode stands in a target.
C16_Original ==
    pc = "rendered" => \A target \in LinkTargets(latex) : IsEncoded(target)

\* ---- C18
BodyOf(doc) == TextBefore(TextAfter(doc, beginDelimiter), endDelimiter)

NameOpen == "\\begin{center}\n    {\\Huge \\scshape "
NameClose == "} \\ \\vspace{1pt}\n    "
NameSegment(doc) == TextBefore(TextAfter(doc, NameOpen), NameClose)

\* the name the header shows, when it holds ordinary and reserved characters
\* only
ShownName == Trim(Get(Get(data, "personalInfo"), "name"))
ReservedOrPlain(text) ==
    \A i \in 1..Len(text) : text[i] \notin {"\\", "<", ">", "\n", "\r"}

Range(seq) == {seq[i] : i \in 1..Len(seq)}

\* line i is "P at C | dates" for a company C and a non-empty position P
IsJobHeading(line, C) ==
    /\ IsSuffix(HeadingRest(C), line)
    /\ Len(line) > Len(HeadingRest(C))
    /\ LET P == SubSeq(line, 1, Len(line) - Len(HeadingRest(C)))
       IN  /\ Trim(P) = P /\ ~Includes(P, "|")
           /\ \A header \in sectionHeaders : ~IncludesWord(P, header)

CompanyOf(line) == CHOOSE C \in Companies : IsJobHeading(line, C)
PositionOf(line) == SubSeq(line, 1, Len(line) - Len(HeadingRest(CompanyOf(line))))

\* the lines are an experience heading followed by job blocks: a heading
\* "P at C | dates", then lines that begin with a bullet and hold text
IsJobBlocks(ls) ==
    /\ Len(ls) >= 2
    /\ ls[1] = <<"Experience">>
    /\ ~StartsWithMarker(ls[2])
    /\ \A i \in 2..Len(ls) :
           IF StartsWithMarker(ls[i]) THEN ls[i] \in BulletLines
           ELSE \E C \in Companies : IsJobHeading(ls[i], C)

\* the bullets of the block whose heading is line i, marker stripped
RECURSIVE BulletsFrom(_, _)
BulletsFrom(ls, i) ==
    IF i > Len(ls) \/ ~StartsWithMarker(ls[i]) THEN <<>>
    ELSE <<Trim(Tail(ls[i]))>> \o BulletsFrom(ls, i + 1)

\* one entry per heading, in source order
RECURSIVE EntriesFrom(_, _)
EntriesFrom(ls, i) ==
    IF i > Len(ls) THEN <<>>
    ELSE IF StartsWithMarker(ls[i]) THEN EntriesFrom(ls, i + 1)
    ELSE <<[position |-> PositionOf(ls[i]), company |-> CompanyOf(ls[i]),
            bullets |-> BulletsFrom(ls, i + 1)]>> \o EntriesFrom(ls, i + 1)

\* C11: from the lines 'Experience', 'P at C | dates' and k bullet lines,
\* extractExperience returns one entry with position P, company C and the k
\* bullets without their marker; two such blocks give two entries in order.
C11_Original ==
    (extracted.fn = "extractExperience" /\ IsJobBlocks(lines)) =>
        extracted.value = EntriesFrom(lines, 2)

\* ---- C12
GroupsOf(item) ==
    {i \in 1..Len(extracted.value) : item \in Range(extracted.value[i].skills)}

CategoryRank(category) ==
    CASE category = "Technical Skills" -> 1
      [] category = "Soft Skills" -> 2
      [] category = "Other Skills" -> 3
      [] OTHER -> 0

\* C12: every skill token that matches the technical keywords is in the
\* group 'Technical Skills', no group is empty, and the groups come in the
\* order technical, soft, other.
C12_SkillGroups ==
    extracted.fn = "extractSkills" =>
        /\ \A item \in Range(SkillItems(lines)) :
               IsTechnical(item) =>
                   \E i \in GroupsOf(item) :
                       extracted.value[i].category = "Technical Skills"
        /\ \A i \in 1..Len(extracted.value) :
               /\ Len(extracted.value[i].skills) > 0
               /\ CategoryRank(extracted.value[i].category) > 0
        /\ \A i, j \in 1..Len(extracted.value) :
               i < j => CategoryRank(extracted.value[i].category)
                            < CategoryRank(extracted.value[j].category)

\* the line of the unit test: JavaScript and React are technical skills
C12_Witness ==
    /\ extracted.fn = "extractSkills"
    /\ lines = <<<<"Skills">>, TestSkillsLine>>
    /\ Len(extracted.value) = 1
    /\ extracted.value[1].category = "Technical Skills"
    /\ {<<"JavaScript">>, <<"React">>} \subseteq Range(extracted.value[1].skills)

\* ---- C13
\* C13: the groups partition the skill tokens: every token is in exactly one
\* group.
C13_Original ==
    extracted.fn = "extractSkills" =>
        \A item \in Range(SkillItems(lines)) : Cardinality(GroupsOf(item)) = 1

\* ---- C19
\* the document the splicing procedure makes of a template and a body
SpliceInto(template, body) ==
    preambleOf(template) \o <<beginDelimiter, "\n">> \o body
    \o <<"\n", endDelimiter>> \o postDocumentOf(template)

\* C19: a full replacement document returned by the chat collaborator
\* (action latex_update) is spliced as the body into the template, between
\* its preamble and postamble, and stored; the body generator is not run.
C19_Original ==
    (llmReply.status = 200
     /\ llmReply.response.action = "latex_update"
     /\ Truthy(llmReply.response.message)) =>
        llmReply.latexStored = SpliceInto(llmReply.latexSent, llmReply.response.message)

\* ---- C20
\* C20: the data of a recorded snapshot never changes: neither the object
\* addResumeSnapshot returned nor the snapshot of that version in the file,
\* whatever is done later to the caller's record or to the store.
C20_SnapshotsKeepData ==
    \A i \in 1..Len(recorded) :
        LET s == recorded[i]
        IN  /\ heap[s.ref] = s.data
            /\ s.id \in DOMAIN file
            /\ Len(file[s.id].resumeSnapshots) >= s.version
            /\ file[s.id].resumeSnapshots[s.version].data = s.data
            /\ file[s.id].resumeSnapshots[s.version].version = s.version

\* the caller's record was changed after its snapshot, a second snapshot
\* and messages were added, the LaTeX and the metadata were updated
C20_Witness ==
    /\ Len(recorded) = 2
    /\ recorded[1].data = RecordA
    /\ heap[1] # RecordA
    /\ Len(file["c1"].messages) > 0
    /\ Get(file["c1"], "currentLatexResume") = <<"x">>
    /\ file["c1"].status = "completed"

\* ---- C21
\* the text holds none of the keywords on any of its lines
NoHeadingIn(s, keywords) == \A i \in 1..Len(s) : Lower(s[i]) \notin keywords

ResultKeys ==
    {"personalInfo", "summary", "experience", "education", "skills",
     "projects", "certifications", "awards"}

\* C21: extractResumeData returns, for every text, a record with all of its
\* keys and all the keys of personalInfo, and a section is empty (the empty
\* string for the summary, the empty sequence for experience, education and
\* skills) when no line of the text holds one of the heading keywords of
\* that section.
C21_ExtractTotal ==
    extracted.fn = "extractResumeData" =>
        /\ DOMAIN extracted.value = ResultKeys
        /\ DOMAIN extracted.value.personalInfo = PersonalInfoKeys
        /\ NoHeadingIn(resumeText, summaryKeywords) => extracted.value.summary = <<>>
        /\ NoHeadingIn(resumeText, experienceKeywords) =>
               extracted.value.experience = <<>>
        /\ NoHeadingIn(resumeText, educationKeywords) =>
               extracted.value.education = <<>>
        /\ NoHeadingIn(resumeText, skillsKeywords) => extracted.value.skills = <<>>

\* a text of three lines with text on them and no heading of any section
C21_Witness ==
    /\ extracted.fn = "extractResumeData"
    /\ Len(lines) = 3
    /\ \A K \in {summaryKeywords, experienceKeywords, educationKeywords,
                 skillsKeywords} : NoHeadingIn(resumeText, K)
    /\ \E i \in 1..3 : Length(lines[i]) > SummaryMinLen
    /\ extracted.value.summary = <<>>
    /\ extracted.value.personalInfo.name # <<>>

\* ---- C22
\* C22: the atsScore that analyzeJobDescription returns is an integer from
\* 0 to 100.
C22_AtsScoreInRange ==
    fnName = "analyzeJobDescription" => fnResult.value.atsScore \in 0..100

\* a description with more than 20 keywords, cut to the limit, and more
\* than 8 technical skills, whose score is the greatest
C22_Witness ==
    /\ fnName = "analyzeJobDescription"
    /\ Len(fnResult.value.keywords) = KeywordLimit
    /\ Len(fnResult.value.technicalSkills) > 8
    /\ fnResult.value.atsScore = 100

\* ---- C23
\* position and company as one of the two heading formats gives them, <<>>
\* when the line matches neither
HeadingParts(line) ==
    LET parts == MapSeq(Trim, SplitAny(line, {"|", "-"}))
    IN  IF JobMatch(line) # <<>> THEN JobMatch(line)
        ELSE IF (Includes(line, "|")
                 \/ \E i \in 1..(Len(line) - 2) :
                        SubSeq(line, i, i + 2) = <<" ", "-", " ">>)
                /\ Len(parts) >= 2
            THEN <<parts[1], parts[2]>>
        ELSE <<>>

IsHeadingLine(line) == ~StartsWithMarker(line) /\ Length(line) > HeadingMinLen

\* the heading lines of the experience section that resolve a position and
\* a company, in order: the section runs from the line after the first
\* experience keyword to the next section header
ResolvedHeadings(ls) ==
    LET first == FirstLineWith(ls, experienceKeywords)
        Stops == {i \in (first + 1)..Len(ls) :
                     isSectionHeader(ls[i]) /\ LowerLine(ls[i]) # <<"experience">>}
        last == IF Stops = {} THEN Len(ls) ELSE Least(Stops) - 1
        Resolves(line) ==
            /\ IsHeadingLine(line)
            /\ HeadingParts(line) # <<>>
            /\ Truthy(HeadingParts(line)[1]) /\ Truthy(HeadingParts(line)[2])
        Parts(line) == [position |-> HeadingParts(line)[1],
                        company |-> HeadingParts(line)[2]]
    IN  IF first = 0 THEN <<>>
        ELSE MapSeq(Parts, FilterSeq(Resolves, SubSeq(ls, first + 1, last)))

\* C23 (as stated): the entries of extractExperience are, in order, one for
\* each heading line that resolved a position and a company; a heading line
\* that matches neither format adds and repeats nothing.
C23_Original ==
    extracted.fn = "extractExperience" =>
        [i \in 1..Len(extracted.value) |->
            [position |-> extracted.value[i].position,
             company |-> extracted.value[i].company]]
        = ResolvedHeadings(lines)

\* ---- C24
\* the token that opens each section, and the key it renders, in the order
\* of the claim
SectionMarks ==
    <<NameOpen, "\\section{Professional Summary}",
      "\\section{Professional Experience}", "\\section{Projects}",
      "\\section{Technical Skills}", "\\section{Education}",
      "\\section{Certifications}", "\\section{Awards}">>
SectionKeys ==
    <<"personalInfo", "summary", "experience", "projects", "skills",
      "education", "certifications", "awards">>

IsSectionMark(tok) == \E i \in 1..Len(SectionMarks) : tok = SectionMarks[i]

\* the header, a summary that is not blank, a list with an entry
SectionShown(i) ==
    \/ SectionKeys[i] = "personalInfo"
    \/ SectionKeys[i] = "summary" /\ Trim(Get(data, "summary")) # <<>>
    \/ SectionKeys[i] \notin {"personalInfo", "summary"}
       /\ Len(Get(data, SectionKeys[i])) > 0

RECURSIVE MarksFrom(_)
MarksFrom(i) ==
    IF i > Len(SectionMarks) THEN <<>>
    ELSE (IF SectionShown(i) THEN <<SectionMarks[i]>> ELSE <<>>) \o MarksFrom(i + 1)

\* C24: the section openings of a generated body are, in the order header,
\* summary, experience, projects, skills, education, certifications,
\* awards, the header and exactly the sections that are not empty.
C24_SectionOrder ==
    pc = "rendered" => SelectSeq(BodyOf(latex), IsSectionMark) = MarksFrom(1)

\* a record with a blank summary and no projects, rendered with its
\* experience, skills and awards
C24_Witness ==
    /\ pc = "rendered"
    /\ Get(data, "summary") # <<>> /\ Trim(Get(data, "summary")) = <<>>
    /\ Len(Get(data, "experience")) > 0
    /\ Len(Get(data, "projects")) = 0
    /\ Len(Get(data, "awards")) > 0
    /\ Len(MarksFrom(1)) = 4

\* ---- C25
HeaderClose == " \\\n\\end{center}"

\* the parts of the contact line of a document
ContactLine(doc) ==
    Split(TextBefore(TextAfter(doc, NameClose), HeaderClose), " $|$ ")

ContactRank ==
    [location |-> 1, phone |-> 2, email |-> 3, linkedin |-> 4, github |-> 5,
     website |-> 6, unknown |-> 0]

\* the field that the part at index i of the contact line shows
PartKind(parts, i, info) ==
    LET part == parts[i]
        label == LET rest == TextAfter(part, "}{")
                 IN  SubSeq(rest, 1, Len(rest) - 1)
    IN  IF part = <<>> THEN "unknown"
        ELSE IF Head(part) = "\\href{"
            THEN IF part[Len(part)] # "}" THEN "unknown"
                 ELSE IF label = <<"LinkedIn">> THEN "linkedin"
                 ELSE IF label = <<"GitHub">> THEN "github"
                 ELSE IF label = <<"Portfolio">> THEN "website"
                 ELSE IF label = escapeLatex(Trim(Get(info, "email"))) THEN "email"
                 ELSE "unknown"
        ELSE IF i = 1 /\ Truthy(Get(info, "location"))
                /\ part = escapeLatex(Get(info, "location")) THEN "location"
        ELSE IF Truthy(Get(info, "phone"))
                /\ part = escapeLatex(Get(info, "phone")) THEN "phone"
        ELSE "unknown"

\* no field gives a part: location, phone and email are empty and each URL
\* is empty or blank
NoContactPart(info) ==
    /\ \A k \in {"location", "phone", "email"} : ~Truthy(Get(info, k))
    /\ \A k \in {"linkedin", "github", "website"} : Trim(Get(info, k)) = <<>>

\* the contact line of the rendered document: its parts show fields that
\* are present, in the order location, phone, email, linkedin, github,
\* website, location, phone and email whenever present, and the placeholder
\* stands alone exactly when no field gives a part
ContactLineAsClaimed ==
    LET info == Get(data, "personalInfo")
        parts == ContactLine(latex)
        Kind(i) == PartKind(parts, i, info)
    IN  IF parts = <<<<ContactPlaceholder>>>> THEN NoContactPart(info)
        ELSE /\ ~NoContactPart(info)
             /\ \A i \in 1..Len(parts) :
                    /\ Kind(i) # "unknown"
                    /\ Truthy(Get(info, Kind(i)))
                    /\ \A j \in 1..(i - 1) : ContactRank[Kind(j)] < ContactRank[Kind(i)]
             /\ \A k \in {"location", "phone", "email"} :
                    Truthy(Get(info, k)) => \E i \in 1..Len(parts) : Kind(i) = k

\* C25 (as stated): the header shows the escaped name, the literal
\* 'Your Name' when the name is the empty string, and the contact line is
\* as claimed.
C25_Original ==
    pc = "rendered" =>
        /\ NameSegment(latex) =
               IF Get(Get(data, "personalInfo"), "name") # <<>>
                  THEN escapeLatex(Get(Get(data, "personalInfo"), "name"))
                  ELSE <<"Your Name">>
        /\ ContactLineAsClaimed

\* C25 (amended): the header shows the escaped name without the white space
\* around it, the literal 'Your Name' when the name is empty or blank, and
\* the contact line is as claimed.
C25_Header ==
    pc = "rendered" =>
        /\ NameSegment(latex) =
               IF ShownName # <<>> THEN escapeLatex(ShownName) ELSE <<"Your Name">>
        /\ ContactLineAsClaimed

\* a padded name is shown trimmed, next to a blank location, the blank
\* linkedin giving no part
C25_Witness ==
    /\ pc = "rendered"
    /\ ShownName # <<>> /\ ShownName # Get(Get(data, "personalInfo"), "name")
    /\ Get(Get(data, "personalInfo"), "linkedin") # <<>>
    /\ Len(ContactLine(latex)) = 1
    /\ ContactLine(latex) # <<<<ContactPlaceholder>>>>

\* ---- C26
\* the lines after the first line that holds a summary keyword up to the next
\* section-header line, those of at least minLen characters, the first three
\* of them joined by single spaces; empty when no line holds a keyword
SummaryOf(allLines, minLen) ==
    LET first == FirstLineWith(allLines, summaryKeywords)
        Stops == {i \in (first + 1)..Len(allLines) : isSectionHeader(allLines[i])}
        stop == IF Stops = {} THEN Len(allLines) + 1 ELSE Least(Stops)
        IsLong(line) == Length(line) >= minLen
        kept == SelectSeq(SubSeq(allLines, first + 1, stop - 1), IsLong)
    IN  IF first = 0 THEN <<>>
        ELSE Join(SubSeq(kept, 1, Min(SummaryMaxLines, Len(kept))), <<" ">>)

\* C26 (as stated): extractSummary returns the lines after the first summary
\* heading up to the next section-header line, the lines of 10 or more
\* characters, at most 3 of them, joined by single spaces, and the empty
\* string when there is no such heading.
C26_Original ==
    extracted.fn = "extractSummary" =>
        extracted.value = SummaryOf(lines, SummaryMinLen)

\* C26 (amended): extractSummary returns the lines after the first summary
\* heading up to the next section-header line, the lines of more than 10
\* characters (a line of exactly 10 characters is discarded), at most 3 of
\* them, joined by single spaces, and the empty string when there is no such
\* heading.
C26_SummaryLines ==
    extracted.fn = "extractSummary" =>
        extracted.value = SummaryOf(lines, SummaryMinLen + 1)

\* a line of exactly 10 characters is dropped between two kept lines, and a
\* fourth long line is cut off
C26_Witness ==
    /\ extracted.fn = "extractSummary"
    /\ lines = <<<<"Summary">>, <<"Leadership", "x">>, <<"Leadership">>,
                 <<"Communication">>, <<"Communication">>>>
    /\ extracted.value = <<"Leadership", "x", " ", "Communication", " ",
                           "Communication">>

\* ---- C28
\* the snapshots of every conversation carry the versions 1, 2, ..., n in
\* order and currentResume is the data of the last one
VersionsInOrder(f) ==
    \A id \in DOMAIN f :
        LET snapshots == f[id].resumeSnapshots
        IN  /\ \A i \in 1..Len(snapshots) : snapshots[i].version = i
            /\ Len(snapshots) > 0 => f[id].currentResume = snapshots[Len(snapshots)].data

\* an addResumeSnapshot call that returned: the value it returned changed
SnapshotCallReturned == snapshotReturn' # snapshotReturn

\* C28: after addResumeSnapshot calls made one after another the snapshots of
\* a conversation carry the versions 1, 2, ..., n with no gap and no repeat
\* and currentResume equals the data of the last snapshot; a call for an
\* unknown conversation id returns null and leaves the store unchanged.
C28_VersionsAndUnknownId ==
    [][/\ VersionsInOrder(file')
       /\ SnapshotCallReturned =>
             IF snapshotReturn'.id \in DOMAIN file
                THEN /\ snapshotReturn'.value # Null
                     /\ file'[snapshotReturn'.id].resumeSnapshots =
                            Append(file[snapshotReturn'.id].resumeSnapshots,
                                   snapshotReturn'.value)
                ELSE snapshotReturn'.value = Null /\ file' = file]_vars

\* two snapshots were added to a conversation one after the other and a call
\* for an unknown id has returned null since
C28_Witness ==
    /\ snapshotReturn = [id |-> "c9", value |-> Null]
    /\ Len(file["c1"].resumeSnapshots) = 2
    /\ file["c1"].resumeSnapshots[1].data # file["c1"].resumeSnapshots[2].data
    /\ "c9" \notin DOMAIN file

\* ---- C29
\* the language-model call of the request just handled failed: the request
\* with the primary model did, and so did the one with the fallback model
\* when that model has another name
LlmCallFailed(reply) ==
    /\ reply.status = 200
    /\ reply.call.primary = "throws"
    /\ reply.call.fallbackDiffers => reply.call.fallback = "throws"

\* C29: when the language-model call fails during POST /:id/message (the
\* primary model and, only if it has a different name, one attempt with the
\* fallback model), processUserMessage returns the fixed fallback reply with
\* action 'no_change' and no updatedResume; the route stores that reply as
\* the assistant message and leaves currentLatexResume, currentResume and the
\* snapshot list unchanged.
C29_FallbackReply ==
    [][LlmCallFailed(llmReply') =>
          LET id == llmReply'.id
          IN  /\ llmReply'.attempts =
                     IF llmReply'.call.fallbackDiffers
                        THEN <<"primary", "fallback">> ELSE <<"primary">>
              /\ llmReply'.response.message = ConversationFallback
              /\ llmReply'.response.action = "no_change"
              /\ ~Has(llmReply'.response, "updatedResume")
              /\ file'[id].messages[Len(file'[id].messages)] =
                     [role |-> "assistant", content |-> ConversationFallback]
              /\ Get(file'[id], "currentLatexResume") = Get(file[id], "currentLatexResume")
              /\ file'[id].currentResume = file[id].currentResume
              /\ file'[id].resumeSnapshots = file[id].resumeSnapshots]_vars

\* both models failed on an optimization request for a conversation that
\* holds a LaTeX resume and a snapshot
C29_Witness ==
    /\ LlmCallFailed(llmReply)
    /\ llmReply.call.fallbackDiffers
    /\ llmReply.body.content = <<"optimize">>
    /\ Truthy(llmReply.latexSent)
    /\ Len(file[llmReply.id].resumeSnapshots) = 1

Alone(f, task) ==
    CASE task.op = "addMessage" -> addMessage(f, task.id, task.arg)
      [] task.op = "addResumeSnapshot" -> addResumeSnapshot(f, task.id, task.arg)
      [] task.op = "updateConversation" -> updateConversation(f, task.id, task.arg)
      [] task.op = "createConversation" -> createConversation(f, task.id, task.arg)
      [] task.op = "deleteConversation" -> deleteConversation(f, task.id)

\* C27 (as stated): once two store operations that were in flight at the
\* same time have both completed, the file holds the effect of both: it is
\* what the two leave when one runs after the other, in one of the two
\* orders.
C27_Original ==
    (\A t \in Tasks : tasks[t].pc = "done") =>
        \/ file = Alone(Alone(RaceFile, tasks[1]), tasks[2])
        \/ file = Alone(Alone(RaceFile, tasks[2]), tasks[1])

====
